---- MODULE Spec2Model ----
(***************************************************************************)
(* Model of IntentionalBrowsing: the pattern matcher, the platform         *)
(* resolver, the rule tables and getBlockDecision; the redirect builder    *)
(* and the blocked page; the background script with its storage; the SPA   *)
(* router of the content scripts; the schema migration and the operations  *)
(* of Storage; and the background script together with the popup.          *)
(*                                                                         *)
(* A JavaScript string is a sequence of characters.  A character is a TLA+ *)
(* string; a multi-letter word such as "home" stands for a run of letters  *)
(* that no operation of the program splits (the program only splits        *)
(* on "/" and "?", compares whole strings, and tests prefixes that end at  *)
(* a word boundary of this alphabet).                                      *)
(***************************************************************************)
EXTENDS Integers, Sequences, FiniteSets, TLC

VARIABLES url, config, baseDecision, decision, calls,
          pattern, path, matched

\* the result of a call of getPlatformFromUrl(url)
VARIABLES platform

\* the arguments and the result of a call of buildRedirectUrl, and what the
\* blocked page reads back from its address
VARIABLES originalUrl, redirectTarget, extensionId, redirectUrl, blockedUrl

\* the background script: the stored configuration, its cached copy, whether
\* the navigation listeners are set up, the navigation handlers in flight,
\* the address each tab was sent to; the value of stats.blocksTotal when the
\* listeners were set up and the number of completed incrementBlockCount
\* calls; the storage.onChanged events that wait for the listener
VARIABLES stored, cachedConfig, listening, handlers, tabUrl,
          blocksAtInit, incrementsCompleted, changes

\* the page of a content script: window.location.href, the functions
\* installed as history.pushState and history.replaceState, the popstate
\* listeners of the window; the fields of the Router; whether the router is
\* initialised and not destroyed, the number of init() calls, the callbacks
\* that a destroy() removed, and the last navigation event with the number
\* of calls it made of each callback
VARIABLES location, historyPushState, historyReplaceState, popstateListeners,
          lastUrl, originalPushState, originalReplaceState, popstateHandler,
          listeners, active, initCount, staleListeners, lastEvent

\* the argument and the result of a call of migrateSchema
VARIABLES migrateInput, migrateResult

\* the objects DEFAULT_STORAGE and PLATFORM_RULES of the module, the value
\* under 'config' in storage, and what the last Storage.reset stored
\* together with the statistics it replaced
VARIABLES defaultStorage, platformRules, storageData, resetStored

\* the message the background script is handling, the currentConfig of the
\* popup, the number of toggles the user has made in the popup, and the
\* configuration of the last SET_CONFIG that has completed
VARIABLES pending, currentConfig, toggles, lastSet

engineVars == <<url, config, baseDecision, decision, calls>>
matcherVars == <<pattern, path, matched>>
resolverVars == <<platform>>
redirectVars == <<originalUrl, redirectTarget, extensionId, redirectUrl, blockedUrl>>
backgroundVars == <<stored, cachedConfig, listening, handlers, tabUrl,
                    blocksAtInit, incrementsCompleted, changes>>

\* the variables of the components around the decision engine
routerVars == <<location, historyPushState, historyReplaceState, popstateListeners,
                lastUrl, originalPushState, originalReplaceState, popstateHandler,
                listeners, active, initCount, staleListeners, lastEvent>>

migrateVars == <<migrateInput, migrateResult>>

storageVars == <<defaultStorage, platformRules, storageData, resetStored>>

messageVars == <<pending, currentConfig, toggles, lastSet>>

componentVars == <<resolverVars, redirectVars, backgroundVars, routerVars, migrateVars, storageVars, messageVars>>

vars == <<engineVars, matcherVars, componentVars>>

----------------------------------------------------------------------------
(* JavaScript values and string primitives *)

\* the value `undefined` where a string is expected
undefined == <<"<undefined>">>

\* the state of a result variable before the call that sets it
NotCalled == [called |-> FALSE]

\* the browser's own history.pushState or history.replaceState; a function
\* that the k-th Router.init() installed is written k
Native == 0

\* a || b on strings: the empty string and undefined are falsy
OrElse(a, b) == IF a = undefined \/ a = <<>> THEN b ELSE a

RECURSIVE IndexOf(_, _, _)
\* s.indexOf(c, from) for a one-character c, 1-based; 0 when absent
IndexOf(s, c, from) ==
  IF from > Len(s) THEN 0
  ELSE IF s[from] = c THEN from
  ELSE IndexOf(s, c, from + 1)

RECURSIVE Split(_, _)
\* s.split(c) for a one-character separator c
Split(s, c) ==
  LET i == IndexOf(s, c, 1) IN
  IF i = 0 THEN <<s>>
  ELSE <<SubSeq(s, 1, i - 1)>> \o Split(SubSeq(s, i + 1, Len(s)), c)

RECURSIVE StripTrailingSlashes(_)
\* s.replace(/\/+$/, '')
StripTrailingSlashes(s) ==
  IF Len(s) > 0 /\ s[Len(s)] = "/"
  THEN StripTrailingSlashes(SubSeq(s, 1, Len(s) - 1))
  ELSE s

\* segments.filter(s => s !== '')
FilterNonEmpty(segs) == SelectSeq(segs, LAMBDA s : s # <<>>)

\* s.startsWith(prefix)
StartsWith(s, prefix) ==
  /\ Len(prefix) <= Len(s)
  /\ SubSeq(s, 1, Len(prefix)) = prefix

\* s.endsWith(suffix)
EndsWith(s, suffix) ==
  /\ Len(suffix) <= Len(s)
  /\ SubSeq(s, Len(s) - Len(suffix) + 1, Len(s)) = suffix

\* the upper-case characters of the alphabet and their lower-case forms
LowerOf == [c \in {"TWITTER", "COM", "X"} |->
              CASE c = "TWITTER" -> "twitter"
                [] c = "COM" -> "com"
                [] c = "X" -> "x"]

\* s.toLowerCase()
toLowerCase(s) ==
  [i \in 1..Len(s) |-> IF s[i] \in DOMAIN LowerOf THEN LowerOf[s[i]] ELSE s[i]]

RECURSIVE IndexOfSub(_, _, _)
\* s.indexOf(sep, from) for a non-empty string sep, 1-based; 0 when absent
IndexOfSub(s, sep, from) ==
  IF from + Len(sep) - 1 > Len(s) THEN 0
  ELSE IF SubSeq(s, from, from + Len(sep) - 1) = sep THEN from
  ELSE IndexOfSub(s, sep, from + 1)

RECURSIVE SplitOn(_, _)
\* s.split(sep) for a non-empty string sep
SplitOn(s, sep) ==
  LET i == IndexOfSub(s, sep, 1) IN
  IF i = 0 THEN <<s>>
  ELSE <<SubSeq(s, 1, i - 1)>> \o SplitOn(SubSeq(s, i + Len(sep), Len(s)), sep)

RECURSIVE Flatten(_)
\* the concatenation of a sequence of strings
Flatten(ss) == IF ss = <<>> THEN <<>> ELSE Head(ss) \o Flatten(Tail(ss))

\* the characters of a string whose scheme is written as one word
Chars(s) ==
  Flatten([i \in 1..Len(s) |->
             IF s[i] = "https:" THEN <<"https", ":">>
             ELSE IF s[i] = "http:" THEN <<"http", ":">>
             ELSE <<s[i]>>])

----------------------------------------------------------------------------
(* new URL(url) on the alphabet of the model: a special scheme, any number *)
(* of slashes, a non-empty host up to the first "/", "?" or "#", a path up *)
(* to the first "?" or "#".  No ports, credentials, dot segments or        *)
(* percent-encoded characters occur in the alphabet.                       *)

Schemes == {"https:", "http:"}

\* characters that cannot occur in a host: the parser rejects the URL
ForbiddenHostChars == {" ", "*", "@", ":"}

RECURSIVE SkipSlashes(_)
SkipSlashes(s) ==
  IF Len(s) > 0 /\ s[1] = "/" THEN SkipSlashes(Tail(s)) ELSE s

RECURSIVE TakeUntil(_, _)
\* the longest prefix of s with no character of stops
TakeUntil(s, stops) ==
  IF Len(s) = 0 \/ s[1] \in stops THEN <<>>
  ELSE <<s[1]>> \o TakeUntil(Tail(s), stops)

ParseURL(u) ==
  IF Len(u) = 0 \/ u[1] \notin Schemes THEN [ok |-> FALSE]
  ELSE
    LET rest     == SkipSlashes(Tail(u))
        host     == TakeUntil(rest, {"/", "?", "#"})
        afterH   == SubSeq(rest, Len(host) + 1, Len(rest))
        rawPath  == TakeUntil(afterH, {"?", "#"})
    IN IF host = <<>> \/ \E i \in 1..Len(host) : host[i] \in ForbiddenHostChars
       THEN [ok |-> FALSE]
       ELSE [ok       |-> TRUE,
             hostname |-> toLowerCase(host),
             pathname |-> IF rawPath = <<>> THEN <<"/">> ELSE rawPath,
             origin   |-> <<u[1], "/", "/">> \o toLowerCase(host)]

----------------------------------------------------------------------------
(* config.ts: platform identifiers, default configuration, rule tables *)

\* `null` where a PlatformId, a surface name or a timestamp is expected
NoPlatform == "null"
null == -1

\* PlatformId, in the key order of PLATFORM_RULES (Object.entries order)
PlatformOrder ==
  <<"twitter", "reddit", "youtube", "instagram", "facebook", "linkedin", "tiktok">>

PlatformIds == {PlatformOrder[i] : i \in 1..Len(PlatformOrder)}

SCHEMA_VERSION == 1

\* an object with no keys
EmptyMap == [k \in {} |-> TRUE]

TWITTER_DEFAULT ==
  [enabled |-> TRUE,
   hardBlocks |-> [k \in {"home"} |-> TRUE],
   softBlocks |-> EmptyMap,
   redirectTarget |-> <<"blocked">>]

REDDIT_DEFAULT ==
  [enabled |-> TRUE,
   hardBlocks |-> [k \in {"home", "popular", "all"} |-> TRUE],
   softBlocks |-> EmptyMap,
   redirectTarget |-> <<"blocked">>,
   customSettings |-> [blockedSubreddits |-> <<>>]]

YOUTUBE_DEFAULT ==
  [enabled |-> TRUE,
   hardBlocks |-> [k \in {"home", "shorts", "trending", "explore"} |-> TRUE],
   softBlocks |-> [k \in {"recommendations", "endCards", "shortsInFeed"} |-> TRUE],
   redirectTarget |-> <<"feed-block">>,
   customSettings |-> [disableAutoplay |-> TRUE, shortsRedirectToWatch |-> TRUE]]

INSTAGRAM_DEFAULT ==
  [enabled |-> TRUE,
   hardBlocks |-> [k \in {"home", "explore", "reels"} |-> TRUE],
   softBlocks |-> EmptyMap,
   redirectTarget |-> <<"/", "direct", "/", "inbox", "/">>]

FACEBOOK_DEFAULT ==
  [enabled |-> FALSE,
   hardBlocks |-> [k \in {"watch", "reels"} |-> TRUE],
   softBlocks |-> [k \in {"feed", "stories", "peopleYouMayKnow"} |-> TRUE],
   redirectTarget |-> <<"/", "messages", "/">>]

LINKEDIN_DEFAULT ==
  [enabled |-> FALSE,
   hardBlocks |-> EmptyMap,
   softBlocks |-> [k \in {"feed", "peopleYouMayKnow"} |-> TRUE],
   redirectTarget |-> <<"feed-block">>]

TIKTOK_DEFAULT ==
  [enabled |-> TRUE,
   hardBlocks |-> [k \in {"all"} |-> TRUE],
   softBlocks |-> EmptyMap,
   redirectTarget |-> <<"blocked">>]

DEFAULT_PLATFORMS ==
  [p \in PlatformIds |->
     CASE p = "twitter"   -> TWITTER_DEFAULT
       [] p = "reddit"    -> REDDIT_DEFAULT
       [] p = "youtube"   -> YOUTUBE_DEFAULT
       [] p = "instagram" -> INSTAGRAM_DEFAULT
       [] p = "facebook"  -> FACEBOOK_DEFAULT
       [] p = "linkedin"  -> LINKEDIN_DEFAULT
       [] p = "tiktok"    -> TIKTOK_DEFAULT]

DEFAULT_STORAGE ==
  [schemaVersion |-> SCHEMA_VERSION,
   globalEnabled |-> TRUE,
   platforms |-> DEFAULT_PLATFORMS,
   stats |-> [blocksTotal |-> 0, lastBlock |-> null]]

\* one entry of PlatformRules.patterns
UrlPattern(p, m, r, d) ==
  [pattern |-> p, mode |-> m, redirect |-> r, description |-> d]

TWITTER_RULES ==
  [hosts |-> <<<<"twitter", ".", "com">>,
              <<"x", ".", "com">>,
              <<"www", ".", "twitter", ".", "com">>,
              <<"www", ".", "x", ".", "com">>,
              <<"mobile", ".", "twitter", ".", "com">>,
              <<"mobile", ".", "x", ".", "com">>>>,
   patterns |-> <<
     UrlPattern(<<"/">>, "hard", <<"blocked">>, <<"Home feed">>),
     UrlPattern(<<"/", "home">>, "hard", <<"blocked">>, <<"Home feed (explicit)">>),
     UrlPattern(<<"/", "explore">>, "allow", undefined, <<"Explore page">>),
     UrlPattern(<<"/", "explore", "/", "*", "*">>, "allow", undefined, <<"Explore subpages">>),
     UrlPattern(<<"/", "search">>, "allow", undefined, <<"Search">>),
     UrlPattern(<<"/", "search", "/", "*", "*">>, "allow", undefined, <<"Search results">>),
     UrlPattern(<<"/", "notifications">>, "allow", undefined, <<"Notifications">>),
     UrlPattern(<<"/", "notifications", "/", "*", "*">>, "allow", undefined, <<"Notification details">>),
     UrlPattern(<<"/", "messages">>, "allow", undefined, <<"DMs">>),
     UrlPattern(<<"/", "messages", "/", "*", "*">>, "allow", undefined, <<"DM threads">>),
     UrlPattern(<<"/", "i", "/", "*", "*">>, "allow", undefined, <<"Internal pages">>),
     UrlPattern(<<"/", "settings", "/", "*", "*">>, "allow", undefined, <<"Settings">>),
     UrlPattern(<<"/", "*", "/", "status", "/", "*">>, "allow", undefined, <<"Individual tweets">>),
     UrlPattern(<<"/", "*">>, "allow", undefined, <<"User profiles">>)
   >>,
   defaultRedirect |-> <<"blocked">>]

REDDIT_RULES ==
  [hosts |-> <<<<"reddit", ".", "com">>,
              <<"www", ".", "reddit", ".", "com">>,
              <<"old", ".", "reddit", ".", "com">>,
              <<"new", ".", "reddit", ".", "com">>>>,
   patterns |-> <<
     UrlPattern(<<"/">>, "hard", <<"blocked">>, <<"Home feed">>),
     UrlPattern(<<"/", "home">>, "hard", <<"blocked">>, <<"Home feed (explicit)">>),
     UrlPattern(<<"/", "popular">>, "hard", <<"blocked">>, <<"Popular">>),
     UrlPattern(<<"/", "popular", "/", "*", "*">>, "hard", <<"blocked">>, <<"Popular subpages">>),
     UrlPattern(<<"/", "all">>, "hard", <<"blocked">>, <<"r/all">>),
     UrlPattern(<<"/", "r", "/", "all">>, "hard", <<"blocked">>, <<"r/all (explicit)">>),
     UrlPattern(<<"/", "r", "/", "all", "/", "*", "*">>, "hard", <<"blocked">>, <<"r/all subpages">>),
     UrlPattern(<<"/", "r", "/", "popular">>, "hard", <<"blocked">>, <<"r/popular">>),
     UrlPattern(<<"/", "r", "/", "popular", "/", "*", "*">>, "hard", <<"blocked">>, <<"r/popular subpages">>),
     UrlPattern(<<"/", "search">>, "allow", undefined, <<"Search">>),
     UrlPattern(<<"/", "search", "/", "*", "*">>, "allow", undefined, <<"Search results">>),
     UrlPattern(<<"/", "r", "/", "*", "/", "comments", "/", "*", "*">>, "allow", undefined, <<"Post comments">>),
     UrlPattern(<<"/", "r", "/", "*">>, "allow", undefined, <<"Subreddits">>),
     UrlPattern(<<"/", "r", "/", "*", "*">>, "allow", undefined, <<"Subreddit pages">>),
     UrlPattern(<<"/", "user", "/", "*">>, "allow", undefined, <<"User profiles">>),
     UrlPattern(<<"/", "user", "/", "*", "*">>, "allow", undefined, <<"User pages">>),
     UrlPattern(<<"/", "u", "/", "*">>, "allow", undefined, <<"User profiles (short)">>),
     UrlPattern(<<"/", "u", "/", "*", "*">>, "allow", undefined, <<"User pages (short)">>),
     UrlPattern(<<"/", "message", "/", "*", "*">>, "allow", undefined, <<"Messages">>),
     UrlPattern(<<"/", "settings", "/", "*", "*">>, "allow", undefined, <<"Settings">>)
   >>,
   defaultRedirect |-> <<"blocked">>]

YOUTUBE_RULES ==
  [hosts |-> <<<<"youtube", ".", "com">>,
              <<"www", ".", "youtube", ".", "com">>,
              <<"m", ".", "youtube", ".", "com">>>>,
   patterns |-> <<
     UrlPattern(<<"/">>, "soft", undefined, <<"Home (soft block, show search)">>),
     UrlPattern(<<"/", "shorts">>, "hard", <<"/", "feed", "/", "subscriptions">>, <<"Shorts tab">>),
     UrlPattern(<<"/", "shorts", "/", "*">>, "hard", <<"shorts-redirect">>, <<"Individual short">>),
     UrlPattern(<<"/", "feed", "/", "trending">>, "hard", <<"/", "feed", "/", "subscriptions">>, <<"Trending">>),
     UrlPattern(<<"/", "feed", "/", "explore">>, "hard", <<"/", "feed", "/", "subscriptions">>, <<"Explore">>),
     UrlPattern(<<"/", "feed", "/", "subscriptions">>, "allow", undefined, <<"Subscriptions">>),
     UrlPattern(<<"/", "feed", "/", "library">>, "allow", undefined, <<"Library">>),
     UrlPattern(<<"/", "feed", "/", "history">>, "allow", undefined, <<"History">>),
     UrlPattern(<<"/", "watch">>, "allow", undefined, <<"Video player">>),
     UrlPattern(<<"/", "results">>, "allow", undefined, <<"Search results">>),
     UrlPattern(<<"/", "@", "*">>, "allow", undefined, <<"Channel pages">>),
     UrlPattern(<<"/", "channel", "/", "*", "*">>, "allow", undefined, <<"Channel pages (old format)">>),
     UrlPattern(<<"/", "c", "/", "*", "*">>, "allow", undefined, <<"Channel pages (custom URL)">>),
     UrlPattern(<<"/", "playlist">>, "allow", undefined, <<"Playlists">>),
     UrlPattern(<<"/", "premium">>, "allow", undefined, <<"Premium page">>),
     UrlPattern(<<"/", "account", "/", "*", "*">>, "allow", undefined, <<"Account settings">>)
   >>,
   defaultRedirect |-> <<"/", "feed", "/", "subscriptions">>]

INSTAGRAM_RULES ==
  [hosts |-> <<<<"instagram", ".", "com">>,
              <<"www", ".", "instagram", ".", "com">>>>,
   patterns |-> <<
     UrlPattern(<<"/">>, "hard", <<"/", "direct", "/", "inbox", "/">>, <<"Home feed">>),
     UrlPattern(<<"/", "explore">>, "hard", <<"/", "direct", "/", "inbox", "/">>, <<"Explore">>),
     UrlPattern(<<"/", "explore", "/", "*", "*">>, "hard", <<"/", "direct", "/", "inbox", "/">>, <<"Explore pages">>),
     UrlPattern(<<"/", "reels">>, "hard", <<"/", "direct", "/", "inbox", "/">>, <<"Reels tab">>),
     UrlPattern(<<"/", "reels", "/", "*", "*">>, "hard", <<"/", "direct", "/", "inbox", "/">>, <<"Individual reels">>),
     UrlPattern(<<"/", "direct", "/", "inbox">>, "allow", undefined, <<"DMs">>),
     UrlPattern(<<"/", "direct", "/", "inbox", "/", "*", "*">>, "allow", undefined, <<"DM threads">>),
     UrlPattern(<<"/", "direct", "/", "*", "*">>, "allow", undefined, <<"Direct messages">>),
     UrlPattern(<<"/", "p", "/", "*">>, "allow", undefined, <<"Individual posts">>),
     UrlPattern(<<"/", "stories", "/", "*", "*">>, "allow", undefined, <<"Stories">>),
     UrlPattern(<<"/", "accounts", "/", "*", "*">>, "allow", undefined, <<"Account settings">>),
     UrlPattern(<<"/", "*">>, "allow", undefined, <<"User profiles">>)
   >>,
   defaultRedirect |-> <<"/", "direct", "/", "inbox", "/">>]

FACEBOOK_RULES ==
  [hosts |-> <<<<"facebook", ".", "com">>,
              <<"www", ".", "facebook", ".", "com">>,
              <<"m", ".", "facebook", ".", "com">>>>,
   patterns |-> <<
     UrlPattern(<<"/">>, "soft", undefined, <<"Home feed (soft block)">>),
     UrlPattern(<<"/", "watch">>, "hard", <<"/", "messages", "/">>, <<"Watch">>),
     UrlPattern(<<"/", "watch", "/", "*", "*">>, "hard", <<"/", "messages", "/">>, <<"Watch videos">>),
     UrlPattern(<<"/", "reels">>, "hard", <<"/", "messages", "/">>, <<"Reels">>),
     UrlPattern(<<"/", "reels", "/", "*", "*">>, "hard", <<"/", "messages", "/">>, <<"Individual reels">>),
     UrlPattern(<<"/", "marketplace">>, "allow", undefined, <<"Marketplace">>),
     UrlPattern(<<"/", "marketplace", "/", "*", "*">>, "allow", undefined, <<"Marketplace pages">>),
     UrlPattern(<<"/", "groups", "/", "*", "*">>, "allow", undefined, <<"Groups">>),
     UrlPattern(<<"/", "messages">>, "allow", undefined, <<"Messages">>),
     UrlPattern(<<"/", "messages", "/", "*", "*">>, "allow", undefined, <<"Message threads">>),
     UrlPattern(<<"/", "events">>, "allow", undefined, <<"Events">>),
     UrlPattern(<<"/", "events", "/", "*", "*">>, "allow", undefined, <<"Event pages">>),
     UrlPattern(<<"/", "settings", "/", "*", "*">>, "allow", undefined, <<"Settings">>),
     UrlPattern(<<"/", "*">>, "allow", undefined, <<"User profiles and pages">>)
   >>,
   defaultRedirect |-> <<"/", "messages", "/">>]

LINKEDIN_RULES ==
  [hosts |-> <<<<"linkedin", ".", "com">>,
              <<"www", ".", "linkedin", ".", "com">>>>,
   patterns |-> <<
     UrlPattern(<<"/">>, "soft", <<"/", "messaging", "/">>, <<"Home feed (soft block)">>),
     UrlPattern(<<"/", "feed">>, "soft", <<"/", "messaging", "/">>, <<"Feed (soft block)">>),
     UrlPattern(<<"/", "feed", "/", "*", "*">>, "soft", <<"/", "messaging", "/">>, <<"Feed pages">>),
     UrlPattern(<<"/", "in", "/", "*">>, "allow", undefined, <<"User profiles">>),
     UrlPattern(<<"/", "messaging">>, "allow", undefined, <<"Messages">>),
     UrlPattern(<<"/", "messaging", "/", "*", "*">>, "allow", undefined, <<"Message threads">>),
     UrlPattern(<<"/", "jobs">>, "allow", undefined, <<"Jobs">>),
     UrlPattern(<<"/", "jobs", "/", "*", "*">>, "allow", undefined, <<"Job listings">>),
     UrlPattern(<<"/", "mynetwork">>, "allow", undefined, <<"My Network">>),
     UrlPattern(<<"/", "mynetwork", "/", "*", "*">>, "allow", undefined, <<"Network pages">>),
     UrlPattern(<<"/", "company", "/", "*", "*">>, "allow", undefined, <<"Company pages">>),
     UrlPattern(<<"/", "posts", "/", "*", "*">>, "allow", undefined, <<"Individual posts">>),
     UrlPattern(<<"/", "settings", "/", "*", "*">>, "allow", undefined, <<"Settings">>)
   >>,
   defaultRedirect |-> <<"/", "messaging", "/">>]

TIKTOK_RULES ==
  [hosts |-> <<<<"tiktok", ".", "com">>,
              <<"www", ".", "tiktok", ".", "com">>>>,
   patterns |-> <<
     UrlPattern(<<"/", "*", "*">>, "hard", <<"blocked">>, <<"All pages blocked">>)
   >>,
   defaultRedirect |-> <<"blocked">>]

PLATFORM_RULES ==
  [p \in PlatformIds |->
     CASE p = "twitter"   -> TWITTER_RULES
       [] p = "reddit"    -> REDDIT_RULES
       [] p = "youtube"   -> YOUTUBE_RULES
       [] p = "instagram" -> INSTAGRAM_RULES
       [] p = "facebook"  -> FACEBOOK_RULES
       [] p = "linkedin"  -> LINKEDIN_RULES
       [] p = "tiktok"    -> TIKTOK_RULES]

\* PLATFORM_REDIRECT_OPTIONS[p].map(o => o.value)
PLATFORM_REDIRECT_OPTIONS ==
  [p \in PlatformIds |->
     CASE p = "twitter"   -> <<<<"blocked">>, <<"following-tab">>, <<"/", "i", "/", "chat">>>>
       [] p = "reddit"    -> <<<<"blocked">>>>
       [] p = "youtube"   -> <<<<"feed-block">>, <<"blocked">>, <<"/", "feed", "/", "subscriptions">>>>
       [] p = "instagram" -> <<<<"blocked">>, <<"/", "direct", "/", "inbox", "/">>>>
       [] p = "facebook"  -> <<<<"feed-block">>, <<"blocked">>, <<"/", "messages", "/">>>>
       [] p = "linkedin"  -> <<<<"feed-block">>, <<"blocked">>, <<"/", "messaging", "/">>>>
       [] p = "tiktok"    -> <<<<"blocked">>, <<"/", "following">>, <<"/", "inbox">>>>]

----------------------------------------------------------------------------
(* rules.ts: the pattern matcher *)

Star == <<"*">>
DoubleStar == <<"*", "*">>

RECURSIVE matchSegmentsFrom_NoBacktrack(_, _, _, _)
\* '**' before further segments tries the first split point only
matchSegmentsFrom_NoBacktrack(pat, segs, pi, si) ==
  IF pi > Len(pat) THEN si > Len(segs)
  ELSE IF pat[pi] = DoubleStar THEN
    IF pi = Len(pat) THEN TRUE
    ELSE matchSegmentsFrom_NoBacktrack(SubSeq(pat, pi + 1, Len(pat)),
                                       SubSeq(segs, si, Len(segs)), 1, 1)
  ELSE IF si > Len(segs) THEN FALSE
  ELSE IF pat[pi] = Star THEN matchSegmentsFrom_NoBacktrack(pat, segs, pi + 1, si + 1)
  ELSE IF pat[pi] # segs[si] THEN FALSE
  ELSE matchSegmentsFrom_NoBacktrack(pat, segs, pi + 1, si + 1)

RECURSIVE matchSegmentsFrom_TrailingNeedsOne(_, _, _, _)
\* a final '**' demands at least one remaining path segment
matchSegmentsFrom_TrailingNeedsOne(pat, segs, pi, si) ==
  IF pi > Len(pat) THEN si > Len(segs)
  ELSE IF pat[pi] = DoubleStar THEN
    IF pi = Len(pat) THEN si <= Len(segs)
    ELSE \E i \in si..(Len(segs) + 1) :
           matchSegmentsFrom_TrailingNeedsOne(SubSeq(pat, pi + 1, Len(pat)),
                                              SubSeq(segs, i, Len(segs)), 1, 1)
  ELSE IF si > Len(segs) THEN FALSE
  ELSE IF pat[pi] = Star THEN matchSegmentsFrom_TrailingNeedsOne(pat, segs, pi + 1, si + 1)
  ELSE IF pat[pi] # segs[si] THEN FALSE
  ELSE matchSegmentsFrom_TrailingNeedsOne(pat, segs, pi + 1, si + 1)

RECURSIVE matchSegmentsFrom(_, _, _, _)
\* the while loop of matchSegments, entered with indices pi and si (1-based)
matchSegmentsFrom(pat, segs, pi, si) ==
  IF pi > Len(pat) THEN si > Len(segs)
  ELSE IF pat[pi] = DoubleStar THEN
    IF pi = Len(pat) THEN TRUE
    ELSE \E i \in si..(Len(segs) + 1) :
           matchSegmentsFrom(SubSeq(pat, pi + 1, Len(pat)),
                             SubSeq(segs, i, Len(segs)), 1, 1)
  ELSE IF si > Len(segs) THEN FALSE
  ELSE IF pat[pi] = Star THEN matchSegmentsFrom(pat, segs, pi + 1, si + 1)
  ELSE IF pat[pi] # segs[si] THEN FALSE
  ELSE matchSegmentsFrom(pat, segs, pi + 1, si + 1)

matchSegments(pat, segs) == matchSegmentsFrom(pat, segs, 1, 1)

\* the strings are split as they are: no trailing slash is removed and no
\* empty segment but the leading one is dropped
matchPattern_NoNormalize(pat, p) ==
  LET pathSegments    == Tail(Split(Split(p, "?")[1], "/"))
      patternSegments == Tail(Split(pat, "/"))
  IN IF Len(patternSegments) = 0 /\ Len(pathSegments) = 0
     THEN TRUE
     ELSE matchSegments(patternSegments, pathSegments)

matchPattern(pat, p) ==
  LET normalizedPath    == OrElse(StripTrailingSlashes(Split(p, "?")[1]), <<"/">>)
      normalizedPattern == OrElse(StripTrailingSlashes(pat), <<"/">>)
      pathSegments      == FilterNonEmpty(Split(normalizedPath, "/"))
      patternSegments   == FilterNonEmpty(Split(normalizedPattern, "/"))
  IN IF Len(patternSegments) = 0 /\ Len(pathSegments) = 0
     THEN TRUE
     ELSE matchSegments(patternSegments, pathSegments)

----------------------------------------------------------------------------
(* rules.ts: the platform resolver *)

\* every entry is taken as a suffix of the hostname
HostMatches_Suffix(hostname, host) == EndsWith(hostname, host)

\* the test applied to one entry of rules.hosts
HostMatches(hostname, host) ==
  IF StartsWith(host, <<"*", ".">>)
  THEN LET domain == SubSeq(host, 3, Len(host))
       IN hostname = domain \/ EndsWith(hostname, <<".">> \o domain)
  ELSE hostname = host

RECURSIVE FirstPlatform(_, _)
\* the loop over Object.entries(PLATFORM_RULES), from entry i on
FirstPlatform(hostname, i) ==
  IF i > Len(PlatformOrder) THEN NoPlatform
  ELSE LET hosts == PLATFORM_RULES[PlatformOrder[i]].hosts
       IN IF \E h \in 1..Len(hosts) : HostMatches(hostname, hosts[h])
          THEN PlatformOrder[i]
          ELSE FirstPlatform(hostname, i + 1)

getPlatformFromUrl(u) ==
  LET parsed == ParseURL(u)
  IN IF ~parsed.ok THEN NoPlatform ELSE FirstPlatform(parsed.hostname, 1)

----------------------------------------------------------------------------
(* rules.ts: the decision engine *)

Decision(b, m, r, why) ==
  [shouldBlock |-> b, mode |-> m, redirectUrl |-> r, reason |-> why]

\* the object returned when no platform owns the URL
UnknownPlatformDecision_FailClosed ==
  Decision(TRUE, "hard", <<"blocked">>, <<"Unknown platform">>)

UnknownPlatformDecision ==
  Decision(FALSE, "allow", undefined, <<"Unknown platform">>)

\* the object returned when no pattern matches
NoMatchDecision_DefaultDeny ==
  Decision(TRUE, "hard", <<"blocked">>, <<"No matching pattern">>)

NoMatchDecision ==
  Decision(FALSE, "allow", undefined, <<"No matching pattern">>)

\* redirectUrl of a matched pattern
PatternRedirect_Always(shouldBlock, pt, rules) ==
  OrElse(pt.redirect, rules.defaultRedirect)

\* the pattern's own redirect only, without the platform's default
PatternRedirect_OwnOnly(shouldBlock, pt, rules) ==
  IF shouldBlock THEN pt.redirect ELSE undefined

PatternRedirect(shouldBlock, pt, rules) ==
  IF shouldBlock THEN OrElse(pt.redirect, rules.defaultRedirect) ELSE undefined

RECURSIVE FirstMatch_Last(_, _, _)
\* the last matching pattern instead of the first
FirstMatch_Last(patterns, pathname, i) ==
  IF i > Len(patterns) THEN 0
  ELSE LET later == FirstMatch_Last(patterns, pathname, i + 1)
       IN IF later # 0 THEN later
          ELSE IF matchPattern(patterns[i].pattern, pathname) THEN i
          ELSE 0

RECURSIVE FirstMatch(_, _, _)
\* the loop `for (const pattern of rules.patterns)` of checkUrl, from entry
\* i on: the index of the first matching pattern, 0 when none matches
FirstMatch(patterns, pathname, i) ==
  IF i > Len(patterns) THEN 0
  ELSE IF matchPattern(patterns[i].pattern, pathname) THEN i
  ELSE FirstMatch(patterns, pathname, i + 1)

checkUrl(u) ==
  LET platformId == getPlatformFromUrl(u) IN
  IF platformId = NoPlatform
  THEN UnknownPlatformDecision
  ELSE
    LET rules  == PLATFORM_RULES[platformId]
        parsed == ParseURL(u)
    IN IF ~parsed.ok
       THEN Decision(FALSE, "allow", undefined, <<"Invalid URL">>)
       ELSE
         LET i == FirstMatch(rules.patterns, parsed.pathname, 1) IN
         IF i = 0
         THEN NoMatchDecision
         ELSE
           LET pt == rules.patterns[i]
               shouldBlock == pt.mode # "allow"
           IN Decision(shouldBlock, pt.mode,
                       PatternRedirect(shouldBlock, pt, rules),
                       pt.description)

getHardBlockSetting(platformId, pathname) ==
  LET normalizedPath == OrElse(StripTrailingSlashes(pathname), <<"/">>)
      Is(s)          == normalizedPath = s
      Starts(s)      == StartsWith(normalizedPath, s)
  IN CASE platformId = "twitter" ->
            IF Is(<<"/">>) \/ Is(<<"/", "home">>) THEN "home"
            ELSE IF Starts(<<"/", "explore">>) THEN "explore"
            ELSE NoPlatform
       [] platformId = "reddit" ->
            IF Is(<<"/">>) \/ Is(<<"/", "home">>) THEN "home"
            ELSE IF \/ Is(<<"/", "popular">>) \/ Starts(<<"/", "popular", "/">>)
                    \/ Is(<<"/", "r", "/", "popular">>)
                    \/ Starts(<<"/", "r", "/", "popular", "/">>)
                 THEN "popular"
            ELSE IF \/ Is(<<"/", "all">>) \/ Is(<<"/", "r", "/", "all">>)
                    \/ Starts(<<"/", "r", "/", "all", "/">>)
                 THEN "all"
            ELSE NoPlatform
       [] platformId = "youtube" ->
            IF Is(<<"/">>) THEN "home"
            ELSE IF Is(<<"/", "shorts">>) \/ Starts(<<"/", "shorts", "/">>) THEN "shorts"
            ELSE IF Is(<<"/", "feed", "/", "trending">>) THEN "trending"
            ELSE IF Is(<<"/", "feed", "/", "explore">>) THEN "explore"
            ELSE NoPlatform
       [] platformId = "instagram" ->
            IF Starts(<<"/", "explore">>) THEN "explore"
            ELSE IF Starts(<<"/", "reels">>) THEN "reels"
            ELSE NoPlatform
       [] platformId = "facebook" ->
            IF Starts(<<"/", "watch">>) THEN "watch"
            ELSE IF Starts(<<"/", "reels">>) THEN "reels"
            ELSE NoPlatform
       [] platformId = "tiktok" -> "all"
       [] OTHER -> NoPlatform

\* platformConfig.hardBlocks[blockSetting] === false
HardBlockIsFalse(hardBlocks, blockSetting) ==
  blockSetting \in DOMAIN hardBlocks /\ hardBlocks[blockSetting] = FALSE

RECURSIVE FirstHardMatch_AnyBlock(_, _, _)
\* the first matching pattern that blocks, hard or soft
FirstHardMatch_AnyBlock(patterns, pathname, i) ==
  IF i > Len(patterns) THEN 0
  ELSE IF matchPattern(patterns[i].pattern, pathname) /\ patterns[i].mode # "allow"
       THEN i
  ELSE FirstHardMatch_AnyBlock(patterns, pathname, i + 1)

RECURSIVE FirstHardMatch(_, _, _)
\* the second loop of getBlockDecision: the first pattern that matches and
\* has mode 'hard', 0 when there is none
FirstHardMatch(patterns, pathname, i) ==
  IF i > Len(patterns) THEN 0
  ELSE IF matchPattern(patterns[i].pattern, pathname) /\ patterns[i].mode = "hard"
       THEN i
  ELSE FirstHardMatch(patterns, pathname, i + 1)

\* the test `!config.globalEnabled`
IsGloballyDisabled_Ignored(cfg) == FALSE

IsGloballyDisabled(cfg) == ~cfg.globalEnabled

\* the test `!platformConfig.enabled`
IsPlatformDisabled_Ignored(platformConfig) == FALSE

IsPlatformDisabled(platformConfig) == ~platformConfig.enabled

getBlockDecision(u, cfg) ==
  IF IsGloballyDisabled(cfg)
  THEN Decision(FALSE, "allow", undefined, <<"Extension is globally disabled">>)
  ELSE
    LET platformId == getPlatformFromUrl(u) IN
    IF platformId = NoPlatform
    THEN UnknownPlatformDecision
    ELSE
      LET platformConfig == cfg.platforms[platformId] IN
      IF IsPlatformDisabled(platformConfig)
      THEN Decision(FALSE, "allow", undefined, <<platformId, " is disabled">>)
      ELSE
        LET base   == checkUrl(u)
            rules  == PLATFORM_RULES[platformId]
            parsed == ParseURL(u)
        IN IF ~base.shouldBlock THEN base
           ELSE IF ~parsed.ok THEN base
           ELSE
             LET i == FirstHardMatch(rules.patterns, parsed.pathname, 1)
                 blockSetting == getHardBlockSetting(platformId, parsed.pathname)
             IN IF /\ i # 0
                   /\ blockSetting # NoPlatform
                   /\ HardBlockIsFalse(platformConfig.hardBlocks, blockSetting)
                THEN Decision(FALSE, "allow", undefined,
                              <<"Hard block '", blockSetting, "' is disabled">>)
                ELSE base

----------------------------------------------------------------------------
(* Inputs of the decision engine *)

\* longest generated path, in segments
MaxPathSegs == 2

\* path segments tried on each platform (a segment is a string)
PathWords(p) ==
  CASE p = "twitter"   -> {<<"home">>, <<"explore">>, <<"status">>, <<"x">>}
    [] p = "reddit"    -> {<<"popular">>, <<"all">>, <<"r">>, <<"x">>}
    [] p = "youtube"   -> {<<"shorts">>, <<"feed">>, <<"trending">>, <<"x">>}
    [] p = "instagram" -> {<<"explore">>, <<"reels">>, <<"direct">>, <<"x">>}
    [] p = "facebook"  -> {<<"watch">>, <<"reels">>, <<"x">>}
    [] p = "linkedin"  -> {<<"feed">>, <<"in">>, <<"x">>}
    [] p = "tiktok"    -> {<<"following">>, <<"x">>}

\* deeper paths that reach the overlapping patterns of the tables
DeepPaths(p) ==
  CASE p = "twitter"   -> {<<<<"x">>, <<"status">>, <<"x">>>>,
                           <<<<"explore">>, <<"x">>, <<"x">>>>}
    [] p = "reddit"    -> {<<<<"home">>>>,
                           <<<<"r">>, <<"all">>, <<"x">>>>,
                           <<<<"r">>, <<"popular">>, <<"x">>>>,
                           <<<<"r">>, <<"x">>, <<"comments">>>>,
                           <<<<"r">>, <<"x">>, <<"comments">>, <<"x">>, <<"x">>>>,
                           <<<<"r">>, <<"x">>, <<"x">>>>}
    [] p = "youtube"   -> {<<<<"shorts">>, <<"x">>, <<"x">>>>,
                           <<<<"feed">>, <<"trending">>, <<"x">>>>}
    [] p = "instagram" -> {<<<<"reels">>, <<"x">>, <<"x">>>>,
                           <<<<"direct">>, <<"inbox">>, <<"x">>>>}
    [] p = "facebook"  -> {<<<<"watch">>, <<"x">>, <<"x">>>>}
    [] p = "linkedin"  -> {<<<<"feed">>, <<"x">>, <<"x">>>>}
    [] p = "tiktok"    -> {<<<<"x">>, <<"x">>, <<"x">>>>}

SegLists(p) ==
  UNION {[1..k -> PathWords(p)] : k \in 0..MaxPathSegs} \cup DeepPaths(p)

RECURSIVE JoinPath(_)
\* "/" + seg1 + "/" + seg2 ...
JoinPath(segs) ==
  IF segs = <<>> THEN <<>> ELSE <<"/">> \o Head(segs) \o JoinPath(Tail(segs))

\* the spellings of a path in a URL: plain and with a trailing slash; the
\* root also as the empty path and with a query string
PathSpellings(segs) ==
  IF segs = <<>>
  THEN {<<>>, <<"/">>, <<"/", "?", "q">>}
  ELSE {JoinPath(segs), JoinPath(segs) \o <<"/">>}

PathInputs(p) == UNION {PathSpellings(segs) : segs \in SegLists(p)}

\* the host each platform is visited under
HostInputs(p) == {PLATFORM_RULES[p].hosts[1]}

MkUrl(host, pathq) == <<"https:", "/", "/">> \o host \o pathq

UrlInputs(p) == {MkUrl(h, q) : h \in HostInputs(p), q \in PathInputs(p)}

\* URLs of other spellings and hosts: an upper-case host, a listed www host,
\* an unlisted subdomain, an unknown site, and strings that do not parse
OtherUrls ==
  {MkUrl(<<"TWITTER", ".", "COM">>, <<"/", "home">>),
   MkUrl(<<"www", ".", "x", ".", "com">>, <<"/">>),
   <<"http:", "/", "/", "reddit", ".", "com", "/", "r", "/", "all">>,
   MkUrl(<<"api", ".", "twitter", ".", "com">>, <<"/">>),
   MkUrl(<<"example", ".", "com">>, <<"/">>),
   MkUrl(<<"example", ".", "com">>, <<"/", "home">>)}

MalformedUrls ==
  {<<>>, <<"not-a-url">>, <<"/", "home">>,
   <<"twitter", ".", "com", "/">>,
   <<"https:", "/", "/">>,
   <<"https:", "/", "/", "twitter", " ", "com", "/">>}

\* the values offered for platforms[p].redirectTarget
RedirectOptions(p) ==
  {PLATFORM_REDIRECT_OPTIONS[p][i] : i \in 1..Len(PLATFORM_REDIRECT_OPTIONS[p])}

\* the PlatformConfig values tried for an enabled platform p: every value of
\* each default hardBlocks key, and every offered redirectTarget
EnabledConfigInputs(p) ==
  LET d == DEFAULT_PLATFORMS[p] IN
  {[d EXCEPT !.enabled = TRUE, !.hardBlocks = hb] :
      hb \in [DOMAIN d.hardBlocks -> BOOLEAN]}
    \cup {[d EXCEPT !.enabled = TRUE, !.redirectTarget = t] : t \in RedirectOptions(p)}

\* the PlatformConfig values tried for a platform p that need not be enabled
\* (or whose extension is disabled): hardBlocks all true or all false
CoarseConfigInputs(p) ==
  LET d == DEFAULT_PLATFORMS[p] IN
  {[d EXCEPT !.enabled = e, !.hardBlocks = [k \in DOMAIN d.hardBlocks |-> b]] :
      e \in BOOLEAN, b \in BOOLEAN}

\* a configuration: globalEnabled g, platform p configured as pc, and the
\* other platforms at their defaults or (flip) with enabled negated
MkConfig(g, p, pc, flip) ==
  [DEFAULT_STORAGE EXCEPT
     !.globalEnabled = g,
     !.platforms = [q \in PlatformIds |->
                      IF q = p THEN pc
                      ELSE [DEFAULT_PLATFORMS[q] EXCEPT
                              !.enabled = IF flip THEN ~@ ELSE @]]]

ConfigInputs(p) ==
  {MkConfig(TRUE, p, pc, FALSE) : pc \in EnabledConfigInputs(p)}
    \cup {MkConfig(g, p, pc, FALSE) : g \in BOOLEAN, pc \in CoarseConfigInputs(p)}
    \cup {MkConfig(TRUE, p, [DEFAULT_PLATFORMS[p] EXCEPT !.enabled = e], TRUE) :
            e \in BOOLEAN}

----------------------------------------------------------------------------
(* Specification of the decision engine: the inputs are drawn in Init, each *)
(* action is one call.                                                      *)

\* no call of the platform resolver has been made
IdleResolver == platform = NotCalled

\* no call of the redirect builder has been made
IdleRedirect ==
  /\ originalUrl = <<>>
  /\ redirectTarget = <<>>
  /\ extensionId = undefined
  /\ redirectUrl = NotCalled
  /\ blockedUrl = NotCalled

\* the background script is not running
IdleBackground ==
  /\ stored = [present |-> FALSE]
  /\ cachedConfig = [present |-> FALSE]
  /\ listening = FALSE
  /\ handlers = <<>>
  /\ tabUrl = <<>>
  /\ blocksAtInit = 0
  /\ incrementsCompleted = 0
  /\ changes = <<>>

\* no call of the decision engine or of the matcher has been made
IdleEngine ==
  /\ url = <<>>
  /\ config = DEFAULT_STORAGE
  /\ baseDecision = NotCalled
  /\ decision = NotCalled
  /\ calls = <<>>

IdleMatcher ==
  /\ pattern = <<>>
  /\ path = <<>>
  /\ matched = NotCalled

\* no page is open
IdleRouter ==
  /\ location = <<>>
  /\ historyPushState = Native
  /\ historyReplaceState = Native
  /\ popstateListeners = {}
  /\ lastUrl = <<>>
  /\ originalPushState = null
  /\ originalReplaceState = null
  /\ popstateHandler = null
  /\ listeners = {}
  /\ active = FALSE
  /\ initCount = 0
  /\ staleListeners = {}
  /\ lastEvent = [kind |-> "none"]

\* no call of migrateSchema has been made
IdleMigrate ==
  /\ migrateInput = [present |-> FALSE]
  /\ migrateResult = NotCalled

\* the module-level objects have their initial values and no Storage
\* operation has run
IdleStorage ==
  /\ defaultStorage = DEFAULT_STORAGE
  /\ platformRules = PLATFORM_RULES
  /\ storageData = [present |-> FALSE]
  /\ resetStored = NotCalled

\* the popup is closed and no message is being handled
IdleMessages ==
  /\ pending = [type |-> "none"]
  /\ currentConfig = [present |-> FALSE]
  /\ toggles = 0
  /\ lastSet = [present |-> FALSE]

IdleComponents == IdleResolver /\ IdleRedirect /\ IdleBackground /\ IdleRouter /\ IdleMigrate /\ IdleStorage /\ IdleMessages

Idle ==
  /\ pattern = <<>>
  /\ path = <<>>
  /\ matched = NotCalled
  /\ calls = <<>>
  /\ IdleComponents

Init ==
  /\ \/ \E p \in PlatformIds :
          /\ url \in UrlInputs(p)
          /\ config \in ConfigInputs(p)
     \/ /\ url \in OtherUrls \cup MalformedUrls
        /\ config \in ConfigInputs("twitter")
  /\ baseDecision = NotCalled
  /\ decision = NotCalled
  /\ Idle

CallCheckUrl ==
  /\ baseDecision = NotCalled
  /\ baseDecision' = checkUrl(url)
  /\ UNCHANGED <<url, config, decision, calls, pattern, path, matched, componentVars>>

CallGetBlockDecision ==
  /\ decision = NotCalled
  /\ decision' = getBlockDecision(url, config)
  /\ UNCHANGED <<url, config, baseDecision, calls, pattern, path, matched, componentVars>>

Next == CallCheckUrl \/ CallGetBlockDecision

Spec == Init /\ [][Next]_vars

----------------------------------------------------------------------------
(* Properties of the decision engine, checked under Spec *)

Called(d) == d # NotCalled

\* the platform and the parsed form of the URL under decision
UrlPlatform == getPlatformFromUrl(url)
UrlPathname == ParseURL(url).pathname

\* the indices of the patterns of platform p that match pathname
MatchingIndices(p, pathname) ==
  {i \in 1..Len(PLATFORM_RULES[p].patterns) :
     matchPattern(PLATFORM_RULES[p].patterns[i].pattern, pathname)}

\* the least element of a non-empty set of naturals
Least(S) == CHOOSE i \in S : \A j \in S : i <= j

\* C1: with globalEnabled = false, every URL is decided shouldBlock = false
\* and mode = 'allow', whatever the rule table says about the URL.
C1_GlobalDisabledVeto ==
  (Called(decision) /\ ~config.globalEnabled)
    => (decision.shouldBlock = FALSE /\ decision.mode = "allow")

\* a globally disabled configuration has decided a URL that the rule table
\* alone blocks
C1_Witness ==
  /\ Called(decision) /\ Called(baseDecision)
  /\ ~config.globalEnabled
  /\ baseDecision.shouldBlock

\* C2: a URL of platform P is decided shouldBlock = false and mode = 'allow'
\* whenever platforms[P].enabled = false, for every path and every setting of
\* the other platforms.
C2_PlatformDisabledVeto ==
  (/\ Called(decision)
   /\ UrlPlatform # NoPlatform
   /\ ~config.platforms[UrlPlatform].enabled)
    => (decision.shouldBlock = FALSE /\ decision.mode = "allow")

\* the platform of a rule-blocked URL is disabled while the extension and
\* another platform are enabled
C2_Witness ==
  /\ Called(decision) /\ Called(baseDecision)
  /\ UrlPlatform # NoPlatform
  /\ config.globalEnabled
  /\ ~config.platforms[UrlPlatform].enabled
  /\ \E q \in PlatformIds \ {UrlPlatform} :
       config.platforms[q].enabled /\ ~DEFAULT_PLATFORMS[q].enabled
  /\ baseDecision.shouldBlock

\* C3: the mode and redirect token of a rule decision are those of the
\* earliest pattern of the platform's list that matches the path; so are those
\* of every blocking decision of getBlockDecision.
C3_FirstMatchPriority ==
  LET p == UrlPlatform IN
  (/\ Called(baseDecision) \/ Called(decision)
   /\ p # NoPlatform
   /\ MatchingIndices(p, UrlPathname) # {})
    => LET rules == PLATFORM_RULES[p]
           first == rules.patterns[Least(MatchingIndices(p, UrlPathname))]
           token == IF first.mode = "allow" THEN undefined
                    ELSE IF first.redirect # undefined THEN first.redirect
                    ELSE rules.defaultRedirect
       IN /\ Called(baseDecision)
               => (baseDecision.mode = first.mode /\ baseDecision.redirectUrl = token)
          /\ (Called(decision) /\ decision.shouldBlock)
               => (decision.mode = first.mode /\ decision.redirectUrl = token)

\* a path that two patterns of different modes match has been decided
C3_Witness ==
  /\ Called(baseDecision) /\ Called(decision)
  /\ UrlPlatform # NoPlatform
  /\ decision.shouldBlock
  /\ \E i, j \in MatchingIndices(UrlPlatform, UrlPathname) :
       /\ i < j
       /\ PLATFORM_RULES[UrlPlatform].patterns[i].mode
            # PLATFORM_RULES[UrlPlatform].patterns[j].mode

\* C4: on a platform whose default hardBlocks has a 'home' entry, with the
\* extension and the platform enabled and hardBlocks.home = false, the home
\* URL (path '/') is decided shouldBlock = false.
C4_HomeReenabled ==
  LET p == UrlPlatform IN
  (/\ Called(decision)
   /\ p # NoPlatform
   /\ "home" \in DOMAIN DEFAULT_PLATFORMS[p].hardBlocks
   /\ config.globalEnabled
   /\ config.platforms[p].enabled
   /\ config.platforms[p].hardBlocks["home"] = FALSE
   /\ UrlPathname = <<"/">>)
    => decision.shouldBlock = FALSE

\* C5: for a hard-blocked URL, choosing another of the platform's offered
\* redirect targets changes the redirect token of the decision.
C5_RedirectFollowsTarget ==
  LET p == UrlPlatform IN
  (/\ Called(decision)
   /\ decision.shouldBlock
   /\ decision.mode = "hard")
    => \A t \in RedirectOptions(p) \ {config.platforms[p].redirectTarget} :
         getBlockDecision(url, [config EXCEPT !.platforms[p].redirectTarget = t]).redirectUrl
           # decision.redirectUrl

\* C6: a decision of checkUrl or getBlockDecision with mode = 'allow' has no
\* redirectUrl, also when a disabled hard-block surface overrides a block.
C6_AllowHasNoRedirect ==
  /\ (Called(baseDecision) /\ baseDecision.mode = "allow")
       => baseDecision.redirectUrl = undefined
  /\ (Called(decision) /\ decision.mode = "allow")
       => decision.redirectUrl = undefined

\* an allow decision has overridden a hard block of the rule table
C6_Witness ==
  /\ Called(decision) /\ Called(baseDecision)
  /\ baseDecision.mode = "hard"
  /\ decision.mode = "allow"
  /\ config.globalEnabled
  /\ UrlPlatform # NoPlatform
  /\ config.platforms[UrlPlatform].enabled

\* C7: on a known platform, a path that no pattern of the platform matches
\* is decided shouldBlock = false and mode = 'allow'.
C7_DefaultAllow ==
  (/\ Called(baseDecision) \/ Called(decision)
   /\ UrlPlatform # NoPlatform
   /\ MatchingIndices(UrlPlatform, UrlPathname) = {})
    => /\ Called(baseDecision)
            => (baseDecision.shouldBlock = FALSE /\ baseDecision.mode = "allow")
       /\ Called(decision)
            => (decision.shouldBlock = FALSE /\ decision.mode = "allow")

\* an unlisted path of an enabled platform has been decided by both functions
C7_Witness ==
  /\ Called(baseDecision) /\ Called(decision)
  /\ UrlPlatform # NoPlatform
  /\ MatchingIndices(UrlPlatform, UrlPathname) = {}
  /\ config.globalEnabled
  /\ config.platforms[UrlPlatform].enabled

BlockModes == {"hard", "soft", "allow"}

\* C8: getBlockDecision returns a decision for every input string, and for
\* a string that does not parse as a URL the decision is shouldBlock = false,
\* mode = 'allow', with a reason.
C8_MalformedUrlAllowed ==
  Called(decision)
    => /\ decision.shouldBlock \in BOOLEAN
       /\ decision.mode \in BlockModes
       /\ ~ParseURL(url).ok
            => /\ decision.shouldBlock = FALSE
               /\ decision.mode = "allow"
               /\ decision.reason # undefined
               /\ decision.reason # <<>>

\* a string that does not parse has been decided under an enabled
\* configuration
C8_Witness ==
  /\ Called(decision)
  /\ url \in MalformedUrls
  /\ ~ParseURL(url).ok
  /\ config.globalEnabled
  /\ config.platforms["twitter"].enabled

----------------------------------------------------------------------------
(* Specification of repeated decisions: the CHECK_URL handler decides a URL *)
(* with the cached configuration; `calls` remembers, for each URL, the      *)
(* configuration and the decision of its first call.                        *)

PureUrls ==
  {MkUrl(<<"twitter", ".", "com">>, <<"/">>),
   MkUrl(<<"twitter", ".", "com">>, <<"/", "messages">>),
   MkUrl(<<"youtube", ".", "com">>, <<"/", "shorts", "/", "x">>),
   MkUrl(<<"instagram", ".", "com">>, <<"/", "explore">>),
   <<"not-a-url">>}

PureConfigs ==
  ConfigInputs("twitter") \cup ConfigInputs("youtube") \cup ConfigInputs("instagram")

InitPure ==
  /\ config \in PureConfigs
  /\ url = <<>>
  /\ decision = NotCalled
  /\ calls = [u \in PureUrls |-> NotCalled]
  /\ baseDecision = NotCalled
  /\ pattern = <<>>
  /\ path = <<>>
  /\ matched = NotCalled
  /\ IdleComponents

\* a handler that writes the override into the configuration it was given
CheckUrlMessage_Mutating(u) ==
  LET d == getBlockDecision(u, config)
      p == getPlatformFromUrl(u)
  IN /\ url' = u
     /\ decision' = d
     /\ calls' = [calls EXCEPT ![u] =
                    IF @ = NotCalled THEN [config |-> config, decision |-> d] ELSE @]
     /\ config' = IF p # NoPlatform /\ d.shouldBlock
                  THEN [config EXCEPT !.platforms[p].enabled = FALSE]
                  ELSE config
     /\ UNCHANGED <<baseDecision, pattern, path, matched, componentVars>>

\* case 'CHECK_URL' of handleMessage, with the cached configuration
CheckUrlMessage(u) ==
  LET d == getBlockDecision(u, config)
  IN /\ url' = u
     /\ decision' = d
     /\ calls' = [calls EXCEPT ![u] =
                    IF @ = NotCalled THEN [config |-> config, decision |-> d] ELSE @]
     /\ UNCHANGED <<config, baseDecision, pattern, path, matched, componentVars>>

NextPure == \E u \in PureUrls : CheckUrlMessage(u)

SpecPure == InitPure /\ [][NextPure]_vars

----------------------------------------------------------------------------
(* Specification of the pattern matcher: pattern and path are drawn in     *)
(* Init, the action is one call of matchPattern.                            *)

\* longest generated pattern and path, in segments
MaxPatternSegs == 3
MaxMatchPathSegs == 4

PatternWords == {<<"a">>, <<"b">>, Star, DoubleStar}
MatchPathWords == {<<"a">>, <<"b">>}

SegListsUpTo(words, n) == UNION {[1..k -> words] : k \in 0..n}

\* the pairs from the documentation and the tests, a pair that differs in
\* case only, and a path with a query string
ExampleMatchInputs ==
  {<<<<"/", "r", "/", "*", "/", "comments", "/", "*", "*">>,
     <<"/", "r", "/", "test", "/", "comments", "/", "123", "/", "title">>>>,
   <<<<"/", "user", "/", "*">>, <<"/", "user", "/", "john">>>>,
   <<<<"/", "user", "/", "*">>, <<"/", "user", "/", "john", "/", "posts">>>>,
   <<<<"/", "home">>, <<"/", "Home">>>>,
   <<<<"/", "watch">>, <<"/", "watch", "?", "v">>>>,
   <<<<"/", "a", "/">>, <<"/", "a">>>>,
   <<<<"/", "a">>, <<"/", "/", "a">>>>}

InitMatch ==
  /\ \/ /\ pattern \in {IF s = <<>> THEN <<"/">> ELSE JoinPath(s) :
                          s \in SegListsUpTo(PatternWords, MaxPatternSegs)}
        /\ path \in UNION {IF s = <<>> THEN {<<"/">>}
                           ELSE {JoinPath(s), JoinPath(s) \o <<"/">>} :
                             s \in SegListsUpTo(MatchPathWords, MaxMatchPathSegs)}
     \/ \E e \in ExampleMatchInputs :
          /\ pattern = e[1]
          /\ path = e[2]
  /\ matched = NotCalled
  /\ url = <<>>
  /\ config = DEFAULT_STORAGE
  /\ baseDecision = NotCalled
  /\ decision = NotCalled
  /\ calls = <<>>
  /\ IdleComponents

CallMatchPattern ==
  /\ matched = NotCalled
  /\ matched' = [called |-> TRUE, result |-> matchPattern(pattern, path)]
  /\ UNCHANGED <<pattern, path, url, config, baseDecision, decision, calls, componentVars>>

NextMatch == CallMatchPattern

SpecMatch == InitMatch /\ [][NextMatch]_vars

\* the non-empty segments of a pattern, and of a path up to its query string
SegmentsOf(s) == FilterNonEmpty(Split(s, "/"))
PathSegmentsOf(q) == SegmentsOf(Split(q, "?")[1])

RECURSIVE SumUpTo(_, _)
\* f[1] + ... + f[n]
SumUpTo(f, n) == IF n = 0 THEN 0 ELSE f[n] + SumUpTo(f, n - 1)

\* an alignment exists: each pattern segment covers a number of consecutive
\* path segments, '**' any number, every other segment exactly one, a
\* literal segment only a path segment equal to it, and all path segments
\* are covered
Aligned(pat, segs) ==
  LET stars == {i \in 1..Len(pat) : pat[i] = DoubleStar} IN
  \E c \in [stars -> 0..Len(segs)] :
    LET covers == [i \in 1..Len(pat) |-> IF i \in stars THEN c[i] ELSE 1] IN
    /\ SumUpTo(covers, Len(pat)) = Len(segs)
    /\ \A i \in 1..Len(pat) :
         (pat[i] # DoubleStar /\ pat[i] # Star)
           => segs[SumUpTo(covers, i - 1) + 1] = pat[i]

\* C10: matchPattern(p, q) is true exactly when the non-empty segments of q
\* can be aligned with those of p: a literal equals its path segment, '*'
\* covers exactly one segment, '**' covers zero or more, at any split point.
C10_MatchIsAlignment ==
  Called(matched)
    => (matched.result = Aligned(SegmentsOf(pattern), PathSegmentsOf(path)))

\* a match that needs '**' to cover two segments before the rest of the
\* pattern, after the shorter splits have failed
C10_Witness ==
  /\ Called(matched)
  /\ matched.result
  /\ pattern = <<"/", "*", "*", "/", "a">>
  /\ path = <<"/", "a", "/", "b", "/", "a">>

\* the segments of a '**'-terminated pattern before the '**'
PrefixOf(pat) == SubSeq(pat, 1, Len(pat) - 1)

\* the leading segments of segs match the fixed prefix pre, segment by segment
SharesPrefix(pre, segs) ==
  /\ Len(segs) >= Len(pre)
  /\ \A i \in 1..Len(pre) : pre[i] = Star \/ pre[i] = segs[i]

\* C11: a pattern whose last segment is '**' and that has no other '**'
\* matches every path whose leading segments match the segments before the
\* '**', also the path that is exactly the prefix.
C11_TrailingDoubleStar ==
  LET pat  == SegmentsOf(pattern)
      segs == PathSegmentsOf(path)
  IN (/\ Called(matched)
      /\ Len(pat) > 0
      /\ pat[Len(pat)] = DoubleStar
      /\ \A i \in 1..(Len(pat) - 1) : pat[i] # DoubleStar
      /\ SharesPrefix(PrefixOf(pat), segs))
       => matched.result

\* '/a/**' has been matched against '/a', the prefix with nothing after it
C11_Witness ==
  /\ Called(matched)
  /\ matched.result
  /\ pattern = <<"/", "a", "/", "*", "*">>
  /\ path = <<"/", "a">>

\* a path other than '/', '//', ... (before its query string)
NonRoot(q) == PathSegmentsOf(q) # <<>>

\* C12: the result of matchPattern(p, q) is that of matchPattern(p, q + '/')
\* for every non-root path q, and that of matchPattern(p + '/', q).
C12_TrailingSlashInvariance ==
  Called(matched)
    => /\ NonRoot(path)
            => matched.result = matchPattern(pattern, path \o <<"/">>)
       /\ matched.result = matchPattern(pattern \o <<"/">>, path)

\* a non-root path without a trailing slash has matched a pattern without one
C12_Witness ==
  /\ Called(matched)
  /\ matched.result
  /\ pattern = <<"/", "a", "/", "*">>
  /\ path = <<"/", "a", "/", "b">>

----------------------------------------------------------------------------
(* Specification of the platform resolver: the URL is drawn in Init, the   *)
(* action is one call of getPlatformFromUrl.                               *)

\* every host entry of the rule tables
ListedHosts ==
  UNION {{PLATFORM_RULES[p].hosts[i] : i \in 1..Len(PLATFORM_RULES[p].hosts)} :
           p \in PlatformIds}

\* each listed host as it is, under a subdomain, behind a prefix without a
\* dot, and in front of another domain; hosts in upper case; unrelated hosts
ResolverHosts ==
  UNION {{h, <<"api", ".">> \o h, <<"not">> \o h, h \o <<".", "example">>} :
           h \in ListedHosts}
  \cup {<<"TWITTER", ".", "COM">>, <<"www", ".", "TWITTER", ".", "com">>,
        <<"X", ".", "COM">>, <<"api", ".", "X", ".", "com">>,
        <<"example", ".", "com">>, <<"com">>}

ResolverUrls ==
  {MkUrl(h, q) : h \in ResolverHosts, q \in {<<>>, <<"/", "home">>}}
  \cup {<<"http:", "/", "/">> \o h : h \in ListedHosts}
  \cup MalformedUrls

InitResolver ==
  /\ url \in ResolverUrls
  /\ platform = NotCalled
  /\ config = DEFAULT_STORAGE
  /\ baseDecision = NotCalled
  /\ decision = NotCalled
  /\ calls = <<>>
  /\ IdleMatcher
  /\ IdleMessages
  /\ IdleStorage
  /\ IdleMigrate
  /\ IdleRedirect
  /\ IdleBackground
  /\ IdleRouter

CallGetPlatformFromUrl ==
  /\ platform = NotCalled
  /\ platform' = [called |-> TRUE, result |-> getPlatformFromUrl(url)]
  /\ UNCHANGED <<engineVars, matcherVars, redirectVars, backgroundVars, routerVars, migrateVars, storageVars, messageVars>>

NextResolver == CallGetPlatformFromUrl

SpecResolver == InitResolver /\ [][NextResolver]_vars

\* hostname is covered by a host entry: an entry '*.domain' covers domain
\* and every name that ends with '.domain', any other entry covers itself
Covers(entry, hostname) ==
  IF Len(entry) >= 2 /\ entry[1] = "*" /\ entry[2] = "."
  THEN LET domain == SubSeq(entry, 3, Len(entry))
           n      == Len(hostname) - Len(domain)
       IN \/ hostname = domain
          \/ /\ n >= 1
             /\ hostname[n] = "."
             /\ SubSeq(hostname, n + 1, Len(hostname)) = domain
  ELSE hostname = entry

\* the platforms with a host entry that covers hostname
PlatformsOf(hostname) ==
  {p \in PlatformIds :
     \E i \in 1..Len(PLATFORM_RULES[p].hosts) :
       Covers(PLATFORM_RULES[p].hosts[i], hostname)}

\* C13: getPlatformFromUrl returns platform P exactly when the lower-cased
\* hostname of the URL is covered by one of P's host entries; it returns
\* null for every other hostname (unlisted subdomains and names that end
\* with a listed host without a dot boundary included) and for every string
\* that does not parse as a URL.
C13_HostResolution ==
  Called(platform)
    => IF ~ParseURL(url).ok THEN platform.result = NoPlatform
       ELSE LET covering == PlatformsOf(ParseURL(url).hostname)
            IN IF covering = {} THEN platform.result = NoPlatform
               ELSE covering = {platform.result}

\* an upper-case spelling of a listed host has been resolved
C13_Witness ==
  /\ Called(platform)
  /\ platform.result = "twitter"
  /\ url = MkUrl(<<"www", ".", "TWITTER", ".", "com">>, <<"/", "home">>)

----------------------------------------------------------------------------
(* rules.ts: the redirect builder; blocked.ts: the reader of the blocked   *)
(* page; URLSearchParams as both use it                                     *)

Blocked == <<"blocked">>
ShortsRedirect == <<"shorts-redirect">>
FeedSubscriptions == <<"/", "feed", "/", "subscriptions">>

\* the value null where a string is expected
nullString == <<"<null>">>

\* the characters of the alphabet that the application/x-www-form-urlencoded
\* serializer percent-encodes, with the two hexadecimal digits of each
PercentCode ==
  [c \in {"/", ":", "?", "&", "#", "=", "+", "%", "@"} |->
     CASE c = "/" -> "2F"
       [] c = ":" -> "3A"
       [] c = "?" -> "3F"
       [] c = "&" -> "26"
       [] c = "#" -> "23"
       [] c = "=" -> "3D"
       [] c = "+" -> "2B"
       [] c = "%" -> "25"
       [] c = "@" -> "40"]

\* the serializer leaves letters, digits, '*', '-', '.' and '_' alone, writes
\* a space as '+' and percent-encodes the rest
EncodeChar(c) ==
  IF c = " " THEN <<"+">>
  ELSE IF c \in DOMAIN PercentCode THEN <<"%", PercentCode[c]>>
  ELSE <<c>>

\* the value is written into the query string as it is
FormEncode_Raw(s) == Chars(s)

FormEncode(s) ==
  LET cs == Chars(s) IN Flatten([i \in 1..Len(cs) |-> EncodeChar(cs[i])])

\* new URLSearchParams({ [name]: value }).toString()
SearchParamsToString(name, value) ==
  FormEncode(name) \o <<"=">> \o FormEncode(value)

RECURSIVE FormDecode(_)
\* the parser's decoding: '+' is a space, '%' and two hexadecimal digits are
\* the character they encode, a '%' before anything else is itself
FormDecode(s) ==
  IF s = <<>> THEN <<>>
  ELSE IF s[1] = "+" THEN <<" ">> \o FormDecode(Tail(s))
  ELSE IF /\ s[1] = "%"
          /\ Len(s) >= 2
          /\ \E c \in DOMAIN PercentCode : PercentCode[c] = s[2]
  THEN <<CHOOSE c \in DOMAIN PercentCode : PercentCode[c] = s[2]>>
         \o FormDecode(SubSeq(s, 3, Len(s)))
  ELSE <<s[1]>> \o FormDecode(Tail(s))

\* new URLSearchParams(search): the list of decoded (name, value) pairs
ParseSearchParams(search) ==
  LET q      == IF Len(search) > 0 /\ search[1] = "?" THEN Tail(search) ELSE search
      pieces == FilterNonEmpty(Split(q, "&"))
      pair(piece) ==
        LET i == IndexOf(piece, "=", 1)
        IN IF i = 0 THEN <<FormDecode(piece), <<>>>>
           ELSE <<FormDecode(SubSeq(piece, 1, i - 1)),
                  FormDecode(SubSeq(piece, i + 1, Len(piece)))>>
  IN [i \in 1..Len(pieces) |-> pair(pieces[i])]

\* params.get(name): the value of the first pair of that name, or null
SearchParamsGet(params, name) ==
  LET hits == {i \in 1..Len(params) : params[i][1] = name}
  IN IF hits = {} THEN nullString
     ELSE params[CHOOSE i \in hits : \A j \in hits : i <= j][2]

\* window.location.search of a page loaded from address u: from the first
\* '?' to the fragment
LocationSearch(u) ==
  LET beforeHash == TakeUntil(Chars(u), {"#"})
      i          == IndexOf(beforeHash, "?", 1)
  IN IF i = 0 THEN <<>> ELSE SubSeq(beforeHash, i, Len(beforeHash))

\* getBlockedUrl() on the page loaded from address u
getBlockedUrl(u) ==
  SearchParamsGet(ParseSearchParams(LocationSearch(u)), <<"url">>)

\* everything behind the first '/shorts/' is taken as the id
ShortIdOf_WholeRest(pathname) ==
  LET i == IndexOfSub(pathname, <<"/", "shorts", "/">>, 1)
  IN IF i = 0 THEN undefined ELSE SubSeq(pathname, i + 3, Len(pathname))

\* url.pathname.split('/shorts/')[1]?.split('/')[0]
ShortIdOf(pathname) ==
  LET pieces == SplitOn(pathname, <<"/", "shorts", "/">>)
  IN IF Len(pieces) < 2 THEN undefined ELSE Split(pieces[2], "/")[1]

BlockedPage(extId) ==
  IF extId # undefined /\ extId # <<>>
  THEN <<"chrome-extension:", "/", "/">> \o extId
         \o <<"/", "ui", "/", "blocked", ".", "html">>
  ELSE <<"/", "ui", "/", "blocked", ".", "html">>

\* an original URL that does not parse yields the empty string
RelativeRedirect_EmptyOnFailure(original, target) ==
  LET parsed == ParseURL(original)
  IN IF parsed.ok THEN parsed.origin \o target ELSE <<>>

\* the final branch of buildRedirectUrl: a path on the origin of the
\* original URL, the target itself when that URL does not parse
RelativeRedirect(original, target) ==
  LET parsed == ParseURL(original)
  IN IF parsed.ok THEN parsed.origin \o target ELSE target

\* a redirect that leads back to the page it comes from
buildRedirectUrl_SamePage(original, target, extId) == original

buildRedirectUrl(original, target, extId) ==
  IF target = Blocked
  THEN BlockedPage(extId) \o <<"?">> \o SearchParamsToString(<<"url">>, original)
  ELSE IF target = ShortsRedirect
  THEN LET parsed  == ParseURL(original)
           shortId == IF parsed.ok THEN ShortIdOf(parsed.pathname) ELSE undefined
       IN IF parsed.ok /\ shortId # undefined /\ shortId # <<>>
          THEN parsed.origin \o <<"/", "watch", "?", "v", "=">> \o shortId
          ELSE RelativeRedirect(original, FeedSubscriptions)
  ELSE RelativeRedirect(original, target)

----------------------------------------------------------------------------
(* Specification of the redirect builder: the arguments are drawn in Init, *)
(* the actions are one call of buildRedirectUrl and the load of the        *)
(* blocked page from the address it returned.                              *)

YouTubeHost == <<"www", ".", "youtube", ".", "com">>

\* paths and query strings of the original URL: shorts with and without an
\* id, and characters that are special in a query string
RedirectPaths ==
  {<<>>, <<"/">>,
   <<"/", "shorts", "/", "abc123">>,
   <<"/", "shorts", "/", "abc123", "/">>,
   <<"/", "shorts", "/", "abc123", "/", "extra">>,
   <<"/", "shorts", "/", "abc123", "?", "feature", "=", "share">>,
   <<"/", "shorts", "/", "abc123", "#", "t">>,
   <<"/", "shorts">>,
   <<"/", "shorts", "/">>,
   <<"/", "shorts", "/", "/", "abc123">>,
   <<"/", "shorts", "/", "?", "v", "=", "abc123">>,
   <<"/", "x", "/", "shorts", "/", "abc123">>,
   <<"/", "watch", "?", "v", "=", "abc123", "&", "t", "=", "1", "#", "top">>,
   <<"/", "results", "?", "q", "=", "a", "+", "b", " ", "c", "%", "2F", "&", "&">>,
   <<"/", "feed", "/", "subscriptions">>}

RedirectOriginals ==
  {MkUrl(YouTubeHost, q) : q \in RedirectPaths}
  \cup {<<"http:", "/", "/", "X", ".", "COM", "/", "shorts", "/", "abc123">>,
        <<"https:", "/", "/", "m", ".", "youtube", ".", "com", "/", "shorts", "/", "v1">>}
  \cup MalformedUrls
  \cup {<<"/", "shorts", "/", "abc123">>,
        <<"url", "=", "x", "&", "url", "=", "y">>}

\* the tokens of the rule tables and of the offered redirect targets
RedirectTokens ==
  UNION {RedirectOptions(p) : p \in PlatformIds}
  \cup {PLATFORM_RULES[p].defaultRedirect : p \in PlatformIds}
  \cup {Blocked, ShortsRedirect, FeedSubscriptions}

ExtensionIds == {undefined, <<"extensionid">>}

InitRedirect ==
  /\ originalUrl \in RedirectOriginals
  /\ redirectTarget \in RedirectTokens
  /\ extensionId \in ExtensionIds
  /\ redirectUrl = NotCalled
  /\ blockedUrl = NotCalled
  /\ IdleEngine
  /\ IdleMatcher
  /\ IdleMessages
  /\ IdleStorage
  /\ IdleMigrate
  /\ IdleResolver
  /\ IdleBackground
  /\ IdleRouter

CallBuildRedirectUrl ==
  /\ redirectUrl = NotCalled
  /\ redirectUrl' = [called |-> TRUE,
                     result |-> buildRedirectUrl(originalUrl, redirectTarget, extensionId)]
  /\ UNCHANGED <<originalUrl, redirectTarget, extensionId, blockedUrl>>
  /\ UNCHANGED <<engineVars, matcherVars, resolverVars, backgroundVars, routerVars, migrateVars, storageVars, messageVars>>

\* the tab has been sent to the blocked page: init() of blocked.ts reads the
\* blocked URL from the address
LoadBlockedPage ==
  /\ Called(redirectUrl)
  /\ redirectTarget = Blocked
  /\ blockedUrl = NotCalled
  /\ blockedUrl' = [called |-> TRUE, result |-> getBlockedUrl(redirectUrl.result)]
  /\ UNCHANGED <<originalUrl, redirectTarget, extensionId, redirectUrl>>
  /\ UNCHANGED <<engineVars, matcherVars, resolverVars, backgroundVars, routerVars, migrateVars, storageVars, messageVars>>

NextRedirect == CallBuildRedirectUrl \/ LoadBlockedPage

SpecRedirect == InitRedirect /\ [][NextRedirect]_vars

\* what follows '/shorts/' at the start of a pathname, up to the next '/'
LeadingShortId(pathname) ==
  LET lead == <<"/", "shorts", "/">>
  IN IF Len(pathname) >= 3 /\ SubSeq(pathname, 1, 3) = lead
     THEN TakeUntil(SubSeq(pathname, 4, Len(pathname)), {"/"})
     ELSE <<>>

\* C14: for the 'shorts-redirect' token and a parsable URL whose path is
\* /shorts/<id>, further segments or not, buildRedirectUrl returns
\* <origin>/watch?v=<id>; when the path is /shorts or no non-empty id follows
\* its leading '/shorts/', it returns <origin>/feed/subscriptions.
C14_ShortsRedirect ==
  (/\ Called(redirectUrl)
   /\ redirectTarget = ShortsRedirect
   /\ ParseURL(originalUrl).ok)
    => LET parsed == ParseURL(originalUrl)
           lead   == <<"/", "shorts", "/">>
           id     == LeadingShortId(parsed.pathname)
       IN /\ id # <<>>
               => redirectUrl.result
                    = parsed.origin \o <<"/", "watch", "?", "v", "=">> \o id
          /\ (/\ id = <<>>
              /\ \/ parsed.pathname = <<"/", "shorts">>
                 \/ (Len(parsed.pathname) >= 3 /\ SubSeq(parsed.pathname, 1, 3) = lead))
               => redirectUrl.result = parsed.origin \o FeedSubscriptions

\* a short with a further segment behind its id has been redirected
C14_Witness ==
  /\ Called(redirectUrl)
  /\ redirectTarget = ShortsRedirect
  /\ originalUrl = MkUrl(YouTubeHost, <<"/", "shorts", "/", "abc123", "/", "extra">>)
  /\ redirectUrl.result
       = <<"https:", "/", "/">> \o YouTubeHost \o <<"/", "watch", "?", "v", "=", "abc123">>

\* C15 as stated: for every redirect token and every original URL that fails
\* to parse, buildRedirectUrl returns the token it was given, unmodified.
C15_UnparsableReturnsToken ==
  (Called(redirectUrl) /\ ~ParseURL(originalUrl).ok)
    => redirectUrl.result = redirectTarget

\* C15, amended: for an original URL that fails to parse, buildRedirectUrl
\* returns a string in every case: the token itself for every token other
\* than 'blocked' and 'shorts-redirect', '/feed/subscriptions' (the token of
\* the secondary default) for 'shorts-redirect', and the address of the
\* blocked page with the original string as its query for 'blocked'.
C15_UnparsableFallback ==
  (Called(redirectUrl) /\ ~ParseURL(originalUrl).ok)
    => /\ redirectTarget \notin {Blocked, ShortsRedirect}
            => redirectUrl.result = redirectTarget
       /\ redirectTarget = ShortsRedirect
            => redirectUrl.result = FeedSubscriptions
       /\ redirectTarget = Blocked
            => /\ StartsWith(redirectUrl.result, BlockedPage(extensionId) \o <<"?">>)
               /\ redirectUrl.result # Blocked

\* 'shorts-redirect' has been built for a string that is not a URL
C15_Witness ==
  /\ Called(redirectUrl)
  /\ ~ParseURL(originalUrl).ok
  /\ originalUrl = <<"/", "shorts", "/", "abc123">>
  /\ redirectTarget = ShortsRedirect

\* C16: for the 'blocked' token buildRedirectUrl returns the address of the
\* blocked page with a query, and the 'url' parameter the blocked page reads
\* from that address is the original URL, character for character, also
\* when the original URL holds '?', '&', '#' or '='.
C16_BlockedUrlRoundTrip ==
  /\ (Called(redirectUrl) /\ redirectTarget = Blocked)
       => StartsWith(redirectUrl.result, BlockedPage(extensionId) \o <<"?">>)
  /\ Called(blockedUrl) => blockedUrl.result = Chars(originalUrl)

\* the blocked page has read back a URL with a query of two parameters and
\* a fragment
C16_Witness ==
  /\ Called(blockedUrl)
  /\ extensionId # undefined
  /\ originalUrl = MkUrl(YouTubeHost,
         <<"/", "watch", "?", "v", "=", "abc123", "&", "t", "=", "1", "#", "top">>)

----------------------------------------------------------------------------
(* storage.ts and background.ts: the stored configuration, the navigation  *)
(* interceptor and Storage.incrementBlockCount.  A handler is an async      *)
(* function: it runs up to its next await in one step, and the steps of     *)
(* handlers in flight interleave.                                           *)

\* chrome.storage.local under the key 'config': absent, or a value
Absent == [present |-> FALSE]
Present(v) == [present |-> TRUE, value |-> v]

\* api.runtime.id
RuntimeId == <<"extensionid">>

\* Date.now() at a block
Now == 1

\* { ...base, ...over }
Spread(base, over) ==
  [k \in DOMAIN base \cup DOMAIN over |->
     IF k \in DOMAIN over THEN over[k] ELSE base[k]]

\* a value that is not an object: undefined, null, a string, a number
NonObject(kind) == [present |-> FALSE, kind |-> kind]

\* migrateSchema without the test of the schema version
migrateSchema_AnyVersion(data) ==
  IF ~data.present THEN DEFAULT_STORAGE
  ELSE Spread(DEFAULT_STORAGE, data.value)

\* migrateSchema that takes the stored platforms as they are
migrateSchema_NoFill(data) ==
  IF ~data.present THEN DEFAULT_STORAGE
  ELSE IF "schemaVersion" \notin DOMAIN data.value
          \/ data.value.schemaVersion # SCHEMA_VERSION
  THEN DEFAULT_STORAGE
  ELSE Spread(DEFAULT_STORAGE, data.value)

\* migrateSchema(data), reading the default configuration as the object
\* DEFAULT_STORAGE holds it (defaults).  A value that is no object
\* (present = FALSE) and an object of another schema version give a copy of
\* the defaults.  Otherwise the copy takes the stored globalEnabled (a
\* missing field stays missing), the stored stats when there are any, and
\* for every platform of the defaults the stored fields spread over the
\* default ones.
migrateSchemaFrom(defaults, data) ==
  IF ~data.present THEN defaults
  ELSE IF "schemaVersion" \notin DOMAIN data.value
          \/ data.value.schemaVersion # SCHEMA_VERSION
  THEN defaults
  ELSE LET obj       == data.value
           platforms == IF "platforms" \in DOMAIN obj THEN obj.platforms ELSE EmptyMap
           result    ==
             [schemaVersion |-> defaults.schemaVersion,
              platforms |->
                [k \in DOMAIN defaults.platforms |->
                   IF k \in DOMAIN platforms
                   THEN Spread(defaults.platforms[k], platforms[k])
                   ELSE defaults.platforms[k]],
              stats |-> IF "stats" \in DOMAIN obj THEN obj.stats
                        ELSE defaults.stats]
       IN IF "globalEnabled" \in DOMAIN obj
          THEN Spread(result, [globalEnabled |-> obj.globalEnabled])
          ELSE result

\* migrateSchema(data) with the module's DEFAULT_STORAGE
migrateSchema(data) == migrateSchemaFrom(DEFAULT_STORAGE, data)

\* what Storage.load leaves in storage: the migrated value when it differs
\* from the stored one
StoredAfterLoad(data) ==
  IF data # Present(migrateSchema(data)) THEN Present(migrateSchema(data)) ELSE data

\* the storage.onChanged events after Storage.load has run on data: load
\* calls storage.local.set when the migrated value differs, and the browser
\* reports the new value
ChangesAfterLoad(data) ==
  IF data # Present(migrateSchema(data))
  THEN Append(changes, migrateSchema(data))
  ELSE changes

\* every blocking decision is redirected, whatever its mode
ShouldRedirect_AnyBlock(d) == d.shouldBlock

\* the negation of the early return of handleNavigation
ShouldRedirect(d) ==
  /\ d.shouldBlock
  /\ d.mode = "hard"
  /\ d.redirectUrl # undefined /\ d.redirectUrl # <<>>

\* a handler slot before its navigation event
IdleHandler ==
  [pc |-> "idle", url |-> <<>>, frameId |-> 0, decision |-> NotCalled,
   redirectUrl |-> <<>>, config |-> DEFAULT_STORAGE, saved |-> FALSE]

----------------------------------------------------------------------------
(* Specification of the background script: init() loads the configuration  *)
(* and sets up the listeners; each handler slot takes one navigation event. *)

\* navigation handlers that can be in flight together
MaxHandlers == 2

Handlers == 1..MaxHandlers

FrameIds == {0, 1}

\* a hard block to the blocked page, a hard block of a short, a soft block,
\* an allowed page and a page of no platform
NavigationUrls ==
  {MkUrl(<<"twitter", ".", "com">>, <<"/", "home">>),
   MkUrl(YouTubeHost, <<"/", "shorts", "/", "abc123">>),
   MkUrl(YouTubeHost, <<"/">>),
   MkUrl(YouTubeHost, <<"/", "watch", "?", "v", "=", "abc123">>),
   MkUrl(<<"example", ".", "com">>, <<"/">>)}

\* what the browser holds under 'config' when the background script starts:
\* nothing, the defaults, a count of earlier blocks, a disabled extension,
\* a value of an older schema
StoredInputs ==
  {Absent,
   Present(DEFAULT_STORAGE),
   Present([DEFAULT_STORAGE EXCEPT !.stats = [blocksTotal |-> 3, lastBlock |-> 0]]),
   Present([DEFAULT_STORAGE EXCEPT !.globalEnabled = FALSE]),
   Present([DEFAULT_STORAGE EXCEPT !.schemaVersion = 0,
                                   !.stats = [blocksTotal |-> 7, lastBlock |-> 0]])}

InitBackground ==
  /\ stored \in StoredInputs
  /\ cachedConfig = Absent
  /\ listening = FALSE
  /\ handlers = [h \in Handlers |-> IdleHandler]
  /\ tabUrl = [h \in Handlers |-> NotCalled]
  /\ blocksAtInit = 0
  /\ incrementsCompleted = 0
  /\ changes = <<>>
  /\ IdleEngine
  /\ IdleMatcher
  /\ IdleMessages
  /\ IdleStorage
  /\ IdleMigrate
  /\ IdleResolver
  /\ IdleRedirect
  /\ IdleRouter

\* init(): Storage.load and setupWebNavigationListeners
BackgroundInit ==
  /\ ~listening
  /\ cachedConfig' = Present(migrateSchema(stored))
  /\ stored' = StoredAfterLoad(stored)
  /\ listening' = TRUE
  /\ changes' = ChangesAfterLoad(stored)
  /\ blocksAtInit' = migrateSchema(stored).stats.blocksTotal
  /\ UNCHANGED <<handlers, tabUrl, incrementsCompleted>>
  /\ UNCHANGED <<engineVars, matcherVars, resolverVars, redirectVars, routerVars, migrateVars, storageVars, messageVars>>

\* a webNavigation event for tab h: the listener and handleNavigation up to
\* the first await of Storage.incrementBlockCount
OnNavigation(h, u, f) ==
  /\ listening
  /\ handlers[h].pc = "idle"
  /\ \E d \in {getBlockDecision(u, IF cachedConfig.present THEN cachedConfig.value
                                     ELSE migrateSchema(stored))} :
       handlers' = [handlers EXCEPT ![h] =
          IF f # 0
          THEN [@ EXCEPT !.pc = "done", !.url = u, !.frameId = f]
          ELSE IF ~ShouldRedirect(d)
          THEN [@ EXCEPT !.pc = "done", !.url = u, !.frameId = f, !.decision = d]
          ELSE [@ EXCEPT !.pc = "incrementLoad", !.url = u, !.frameId = f,
                         !.decision = d,
                         !.redirectUrl = buildRedirectUrl(u, d.redirectUrl, RuntimeId)]]
  /\ UNCHANGED <<stored, cachedConfig, listening, tabUrl, blocksAtInit,
                 incrementsCompleted, changes>>
  /\ UNCHANGED <<engineVars, matcherVars, resolverVars, redirectVars, routerVars, migrateVars, storageVars, messageVars>>

\* Storage.incrementBlockCount: load() has returned, the count is raised in
\* the loaded copy
IncrementLoad(h) ==
  /\ handlers[h].pc = "incrementLoad"
  /\ handlers' = [handlers EXCEPT ![h] =
       [@ EXCEPT !.pc = "incrementSave",
                 !.config = [migrateSchema(stored) EXCEPT
                               !.stats.blocksTotal = @ + 1,
                               !.stats.lastBlock = Now]]]
  /\ stored' = StoredAfterLoad(stored)
  /\ changes' = ChangesAfterLoad(stored)
  /\ UNCHANGED <<cachedConfig, listening, tabUrl, blocksAtInit, incrementsCompleted>>
  /\ UNCHANGED <<engineVars, matcherVars, resolverVars, redirectVars, routerVars, migrateVars, storageVars, messageVars>>

\* Storage.incrementBlockCount: save(config) has written the copy
IncrementSave(h) ==
  /\ handlers[h].pc = "incrementSave"
  /\ stored' = Present(handlers[h].config)
  /\ changes' = Append(changes, handlers[h].config)
  /\ handlers' = [handlers EXCEPT ![h] = [@ EXCEPT !.pc = "reload", !.saved = TRUE]]
  /\ incrementsCompleted' = incrementsCompleted + 1
  /\ UNCHANGED <<cachedConfig, listening, tabUrl, blocksAtInit>>
  /\ UNCHANGED <<engineVars, matcherVars, resolverVars, redirectVars, routerVars, migrateVars, storageVars, messageVars>>

\* cachedConfig = await Storage.load()
ReloadConfig(h) ==
  /\ handlers[h].pc = "reload"
  /\ cachedConfig' = Present(migrateSchema(stored))
  /\ stored' = StoredAfterLoad(stored)
  /\ changes' = ChangesAfterLoad(stored)
  /\ handlers' = [handlers EXCEPT ![h] = [@ EXCEPT !.pc = "tabsUpdate"]]
  /\ UNCHANGED <<listening, tabUrl, blocksAtInit, incrementsCompleted>>
  /\ UNCHANGED <<engineVars, matcherVars, resolverVars, redirectVars, routerVars, migrateVars, storageVars, messageVars>>

\* await api.tabs.update(tabId, { url: redirectUrl })
TabsUpdate(h) ==
  /\ handlers[h].pc = "tabsUpdate"
  /\ tabUrl' = [tabUrl EXCEPT ![h] = [called |-> TRUE, url |-> handlers[h].redirectUrl]]
  /\ handlers' = [handlers EXCEPT ![h] = [@ EXCEPT !.pc = "done"]]
  /\ UNCHANGED <<stored, cachedConfig, listening, blocksAtInit, incrementsCompleted,
                 changes>>
  /\ UNCHANGED <<engineVars, matcherVars, resolverVars, redirectVars, routerVars, migrateVars, storageVars, messageVars>>

\* the storage.onChanged listener, called with the oldest waiting event
OnStorageChanged ==
  /\ changes # <<>>
  /\ cachedConfig' = Present(Head(changes))
  /\ changes' = Tail(changes)
  /\ UNCHANGED <<stored, listening, handlers, tabUrl, blocksAtInit, incrementsCompleted>>
  /\ UNCHANGED <<engineVars, matcherVars, resolverVars, redirectVars, routerVars, migrateVars, storageVars, messageVars>>

NextBackground ==
  \/ BackgroundInit
  \/ \E h \in Handlers, u \in NavigationUrls, f \in FrameIds : OnNavigation(h, u, f)
  \/ \E h \in Handlers : IncrementLoad(h)
  \/ \E h \in Handlers : IncrementSave(h)
  \/ \E h \in Handlers : ReloadConfig(h)
  \/ \E h \in Handlers : TabsUpdate(h)
  \/ OnStorageChanged

SpecBackground == InitBackground /\ [][NextBackground]_vars

\* C17: a handler that has finished a main-frame navigation event has sent
\* the tab to buildRedirectUrl's output and has written a raised block count
\* exactly when its decision has shouldBlock = true and mode = 'hard'; for a
\* soft or allow decision the tab is left alone and the handler has written
\* nothing; the counter is written by no one else.
C17_RedirectIffHardBlock ==
  /\ \A h \in DOMAIN handlers :
       (handlers[h].pc = "done" /\ handlers[h].frameId = 0)
         => LET d == handlers[h].decision
            IN IF d.shouldBlock /\ d.mode = "hard"
               THEN /\ tabUrl[h] = [called |-> TRUE,
                                    url |-> buildRedirectUrl(handlers[h].url,
                                                             d.redirectUrl, RuntimeId)]
                    /\ handlers[h].saved
               ELSE /\ tabUrl[h] = NotCalled
                    /\ ~handlers[h].saved
  /\ incrementsCompleted = Cardinality({h \in DOMAIN handlers : handlers[h].saved})

\* one handler has finished a hard block and another a soft block
C17_Witness ==
  \E h, g \in DOMAIN handlers :
    /\ handlers[h].pc = "done" /\ handlers[h].frameId = 0
    /\ handlers[h].decision.mode = "hard"
    /\ Called(tabUrl[h])
    /\ handlers[g].pc = "done" /\ handlers[g].frameId = 0
    /\ handlers[g].decision.mode = "soft"

\* C18: once every incrementBlockCount call that was started has completed,
\* the stored stats.blocksTotal is its value at start-up plus the number of
\* completed calls, however the load and save steps of the calls interleaved.
C18_CountsEveryIncrement ==
  (/\ listening
   /\ \A h \in DOMAIN handlers :
        handlers[h].pc \notin {"incrementLoad", "incrementSave"})
    => migrateSchema(stored).stats.blocksTotal = blocksAtInit + incrementsCompleted

----------------------------------------------------------------------------
(* router.ts: the SPA router                                                *)

Callbacks == {"cb1", "cb2"}

NoCalls == [cb \in Callbacks |-> 0]

\* every navigation event notifies, whether the URL changed or not
handleNavigation_NoCompare(st, currentUrl, ls) ==
  [lastUrl |-> currentUrl,
   counts  |-> [cb \in Callbacks |-> st.counts[cb] + IF cb \in ls THEN 1 ELSE 0]]

\* Router.handleNavigation on the router state st = [lastUrl, counts], with
\* window.location.href = currentUrl and the registered callbacks ls
handleNavigation(st, currentUrl, ls) ==
  IF currentUrl = st.lastUrl THEN st
  ELSE [lastUrl |-> currentUrl,
        counts  |-> [cb \in Callbacks |-> st.counts[cb] + IF cb \in ls THEN 1 ELSE 0]]

RECURSIVE DispatchPopstate(_, _, _, _)
\* the window calls its n popstate listeners one after the other; each is
\* () => this.handleNavigation()
DispatchPopstate(st, currentUrl, ls, n) ==
  IF n = 0 THEN st
  ELSE DispatchPopstate(handleNavigation(st, currentUrl, ls), currentUrl, ls, n - 1)

\* a call fn(url) of the function installed as history.pushState or
\* history.replaceState, where original is the matching field of the router
\* read when the patch runs.  The browser's function sets the location.  A
\* patch applies the field and then calls handleNavigation; when the field
\* holds a patch itself, that patch applies the same field again and the
\* call ends in a RangeError before the location is touched.
HistoryCall(fn, original, u, kind) ==
  LET before == [lastUrl |-> lastUrl, counts |-> NoCalls]
      event(st, threw) ==
        [kind |-> kind, recorded |-> lastUrl, threw |-> threw,
         active |-> active, listeners |-> listeners, counts |-> st.counts]
  IN IF fn = Native
     THEN /\ location' = u
          /\ lastUrl' = lastUrl
          /\ lastEvent' = event(before, FALSE)
     ELSE IF original = Native
     THEN LET st == handleNavigation(before, u, listeners)
          IN /\ location' = u
             /\ lastUrl' = st.lastUrl
             /\ lastEvent' = event(st, FALSE)
     ELSE /\ location' = location
          /\ lastUrl' = lastUrl
          /\ lastEvent' = event(before, TRUE)

----------------------------------------------------------------------------
(* Specification of the router: a page is open at some address; the content *)
(* script initialises and destroys the router and registers callbacks, the  *)
(* page calls history.pushState and history.replaceState, the user moves    *)
(* through the session history.                                             *)

\* init() calls in one behaviour
MaxInits == 2

RouterUrls ==
  {MkUrl(<<"twitter", ".", "com">>, <<"/", "home">>),
   MkUrl(<<"twitter", ".", "com">>, <<"/", "messages">>),
   MkUrl(<<"twitter", ".", "com">>, <<"/", "explore">>)}

InitRouter ==
  /\ location \in RouterUrls
  /\ historyPushState = Native
  /\ historyReplaceState = Native
  /\ popstateListeners = {}
  /\ lastUrl = <<>>
  /\ originalPushState = null
  /\ originalReplaceState = null
  /\ popstateHandler = null
  /\ listeners = {}
  /\ active = FALSE
  /\ initCount = 0
  /\ staleListeners = {}
  /\ lastEvent = [kind |-> "none"]
  /\ IdleEngine
  /\ IdleMatcher
  /\ IdleMessages
  /\ IdleStorage
  /\ IdleMigrate
  /\ IdleResolver
  /\ IdleRedirect
  /\ IdleBackground

\* Router.init(), with patchHistory()
RouterInit ==
  /\ initCount < MaxInits
  /\ initCount' = initCount + 1
  /\ lastUrl' = location
  /\ originalPushState' = historyPushState
  /\ originalReplaceState' = historyReplaceState
  /\ historyPushState' = initCount + 1
  /\ historyReplaceState' = initCount + 1
  /\ popstateHandler' = initCount + 1
  /\ popstateListeners' = popstateListeners \cup {initCount + 1}
  /\ active' = TRUE
  /\ UNCHANGED <<location, listeners, staleListeners, lastEvent>>
  /\ UNCHANGED <<engineVars, matcherVars, resolverVars, redirectVars, backgroundVars, migrateVars, storageVars, messageVars>>

\* Router.onLocationChange(cb)
OnLocationChange(cb) ==
  /\ listeners' = listeners \cup {cb}
  /\ staleListeners' = staleListeners \ {cb}
  /\ UNCHANGED <<location, historyPushState, historyReplaceState, popstateListeners,
                 lastUrl, originalPushState, originalReplaceState, popstateHandler,
                 active, initCount, lastEvent>>
  /\ UNCHANGED <<engineVars, matcherVars, resolverVars, redirectVars, backgroundVars, migrateVars, storageVars, messageVars>>

\* Router.removeListener(cb)
RemoveListener(cb) ==
  /\ listeners' = listeners \ {cb}
  /\ UNCHANGED <<location, historyPushState, historyReplaceState, popstateListeners,
                 lastUrl, originalPushState, originalReplaceState, popstateHandler,
                 active, initCount, staleListeners, lastEvent>>
  /\ UNCHANGED <<engineVars, matcherVars, resolverVars, redirectVars, backgroundVars, migrateVars, storageVars, messageVars>>

\* the page calls history.pushState(state, '', u)
PushState(u) ==
  /\ HistoryCall(historyPushState, originalPushState, u, "pushState")
  /\ UNCHANGED <<historyPushState, historyReplaceState, popstateListeners,
                 originalPushState, originalReplaceState, popstateHandler,
                 listeners, active, initCount, staleListeners>>
  /\ UNCHANGED <<engineVars, matcherVars, resolverVars, redirectVars, backgroundVars, migrateVars, storageVars, messageVars>>

\* the page calls history.replaceState(state, '', u)
ReplaceState(u) ==
  /\ HistoryCall(historyReplaceState, originalReplaceState, u, "replaceState")
  /\ UNCHANGED <<historyPushState, historyReplaceState, popstateListeners,
                 originalPushState, originalReplaceState, popstateHandler,
                 listeners, active, initCount, staleListeners>>
  /\ UNCHANGED <<engineVars, matcherVars, resolverVars, redirectVars, backgroundVars, migrateVars, storageVars, messageVars>>

\* the user goes back or forward to an entry with address u: the location
\* changes and the window dispatches popstate
PopState(u) ==
  LET st == DispatchPopstate([lastUrl |-> lastUrl, counts |-> NoCalls], u,
                             listeners, Cardinality(popstateListeners))
  IN /\ location' = u
     /\ lastUrl' = st.lastUrl
     /\ lastEvent' = [kind |-> "popstate", recorded |-> lastUrl, threw |-> FALSE,
                      active |-> active, listeners |-> listeners,
                      counts |-> st.counts]
     /\ UNCHANGED <<historyPushState, historyReplaceState, popstateListeners,
                    originalPushState, originalReplaceState, popstateHandler,
                    listeners, active, initCount, staleListeners>>
     /\ UNCHANGED <<engineVars, matcherVars, resolverVars, redirectVars, backgroundVars, migrateVars, storageVars, messageVars>>

\* Router.destroy()
RouterDestroy ==
  /\ historyPushState' =
       IF originalPushState # null THEN originalPushState ELSE historyPushState
  /\ historyReplaceState' =
       IF originalReplaceState # null THEN originalReplaceState ELSE historyReplaceState
  /\ popstateListeners' =
       IF popstateHandler # null THEN popstateListeners \ {popstateHandler}
       ELSE popstateListeners
  /\ listeners' = {}
  /\ staleListeners' = staleListeners \cup listeners
  /\ active' = FALSE
  /\ lastEvent' = [kind |-> "none"]
  /\ UNCHANGED <<location, lastUrl, originalPushState, originalReplaceState,
                 popstateHandler, initCount>>
  /\ UNCHANGED <<engineVars, matcherVars, resolverVars, redirectVars, backgroundVars, migrateVars, storageVars, messageVars>>

NextRouter ==
  \/ RouterInit
  \/ \E cb \in Callbacks : OnLocationChange(cb)
  \/ \E cb \in Callbacks : RemoveListener(cb)
  \/ \E u \in RouterUrls : PushState(u)
  \/ \E u \in RouterUrls : ReplaceState(u)
  \/ \E u \in RouterUrls : PopState(u)
  \/ RouterDestroy

SpecRouter == InitRouter /\ [][NextRouter]_vars

\* C19: a pushState, replaceState or popstate event of an initialised
\* router calls each registered callback once when the address after the
\* event differs from the one the router had recorded (at init or at the
\* last notification), and calls no callback when it is the recorded one;
\* no callback is called twice for one event.
C19_AtMostOncePerChange ==
  (lastEvent.kind # "none" /\ lastEvent.active)
    => \A cb \in Callbacks :
         lastEvent.counts[cb] =
           IF cb \in lastEvent.listeners /\ location # lastEvent.recorded
           THEN 1 ELSE 0

\* a popstate event has changed the address while two popstate listeners
\* of the router are attached and a callback is registered
C19_Witness ==
  /\ lastEvent.kind = "popstate"
  /\ lastEvent.active
  /\ Cardinality(popstateListeners) = 2
  /\ location # lastEvent.recorded
  /\ lastEvent.listeners # {}

\* C20: once the router is destroyed, history.pushState and
\* history.replaceState are the browser's functions again, however many
\* init() calls came before, and no callback that was registered at the
\* destroy is called by a later navigation.
C20_DestroyRestores ==
  (initCount > 0 /\ ~active)
    => /\ historyPushState = Native
       /\ historyReplaceState = Native
       /\ lastEvent.kind # "none"
            => \A cb \in staleListeners : lastEvent.counts[cb] = 0

\* ---------------------------------------------------------------------
\* Schema migration: migrateSchema on the values storage can hold.
\* ---------------------------------------------------------------------

\* the schemaVersion field of a stored object: missing, older, current, newer
VersionParts ==
  {EmptyMap,
   [schemaVersion |-> SCHEMA_VERSION - 1],
   [schemaVersion |-> SCHEMA_VERSION],
   [schemaVersion |-> SCHEMA_VERSION + 1]}

GlobalParts ==
  {EmptyMap, [globalEnabled |-> TRUE], [globalEnabled |-> FALSE]}

StatsParts ==
  {EmptyMap,
   [stats |-> DEFAULT_STORAGE.stats],
   [stats |-> [blocksTotal |-> 3, lastBlock |-> 0]]}

\* the platforms field: missing, empty, one platform with one field, one
\* whole platform, every platform (defaults or changed), and every
\* platform together with one the extension does not know
PlatformParts ==
  {EmptyMap,
   [platforms |-> EmptyMap],
   [platforms |-> [twitter |-> [enabled |-> FALSE]]],
   [platforms |->
      [twitter |-> [TWITTER_DEFAULT EXCEPT !.hardBlocks = [k \in {"home"} |-> FALSE]]]],
   [platforms |-> DEFAULT_PLATFORMS],
   [platforms |-> [DEFAULT_PLATFORMS EXCEPT !.reddit.enabled = FALSE,
                                            !.youtube.hardBlocks.shorts = FALSE]],
   [platforms |-> Spread(DEFAULT_PLATFORMS, [mastodon |-> [enabled |-> TRUE]])]}

\* a field no version of the schema has
ExtraParts == {EmptyMap, [legacy |-> TRUE]}

StoredObjects ==
  {Spread(Spread(Spread(Spread(v, g), s), p), x) :
     v \in VersionParts, g \in GlobalParts, s \in StatsParts,
     p \in PlatformParts, x \in ExtraParts}

MigrateInputs ==
  {NonObject(k) : k \in {"null", "undefined", "string", "number"}}
    \cup {Present(o) : o \in StoredObjects}

InitMigrate ==
  /\ migrateInput \in MigrateInputs
  /\ migrateResult = NotCalled
  /\ IdleEngine
  /\ IdleMatcher
  /\ IdleMessages
  /\ IdleStorage
  /\ IdleResolver
  /\ IdleRedirect
  /\ IdleBackground
  /\ IdleRouter

\* migrateSchema(data)
CallMigrateSchema ==
  /\ migrateResult = NotCalled
  /\ migrateResult' = [called |-> TRUE, value |-> migrateSchema(migrateInput)]
  /\ UNCHANGED migrateInput
  /\ UNCHANGED <<engineVars, matcherVars, resolverVars, redirectVars, backgroundVars, routerVars, storageVars, messageVars>>

NextMigrate == CallMigrateSchema

SpecMigrate == InitMigrate /\ [][NextMigrate]_vars

\* the input is an object that carries the current schema version
CurrentVersion(data) ==
  /\ data.present
  /\ "schemaVersion" \in DOMAIN data.value
  /\ data.value.schemaVersion = SCHEMA_VERSION

Complete(obj) ==
  /\ DOMAIN obj = DOMAIN DEFAULT_STORAGE
  /\ DOMAIN obj.platforms = PlatformIds
  /\ \A k \in PlatformIds : DOMAIN DEFAULT_PLATFORMS[k] \subseteq DOMAIN obj.platforms[k]

\* C22: for a stored object of the current schema version, the result of
\* migrateSchema has one PlatformConfig for every PlatformId and for nothing
\* else, a platform that the stored data lacks has its default, the stored
\* globalEnabled and every stored field of a platform are kept, and a
\* complete configuration is returned as it is.
C22_MigrateCurrent ==
  (Called(migrateResult) /\ CurrentVersion(migrateInput))
    => LET obj       == migrateInput.value
           result    == migrateResult.value
           platforms == IF "platforms" \in DOMAIN obj THEN obj.platforms ELSE EmptyMap
       IN /\ DOMAIN result.platforms = PlatformIds
          /\ \A k \in PlatformIds :
               /\ DOMAIN DEFAULT_PLATFORMS[k] \subseteq DOMAIN result.platforms[k]
               /\ k \notin DOMAIN platforms => result.platforms[k] = DEFAULT_PLATFORMS[k]
               /\ k \in DOMAIN platforms =>
                    \A f \in DOMAIN platforms[k] :
                      result.platforms[k][f] = platforms[k][f]
          /\ "globalEnabled" \in DOMAIN obj =>
               /\ "globalEnabled" \in DOMAIN result
               /\ result.globalEnabled = obj.globalEnabled
          /\ Complete(obj) => result = obj

\* a current-version object that stores one field of one platform, and a
\* globalEnabled of false, has been migrated
C22_Witness ==
  /\ Called(migrateResult)
  /\ CurrentVersion(migrateInput)
  /\ "platforms" \in DOMAIN migrateInput.value
  /\ DOMAIN migrateInput.value.platforms = {"twitter"}
  /\ DOMAIN migrateInput.value.platforms.twitter = {"enabled"}
  /\ "globalEnabled" \in DOMAIN migrateInput.value
  /\ ~migrateInput.value.globalEnabled

\* ---------------------------------------------------------------------
\* Storage: the operations of the Storage object, run one after another,
\* and the module-level objects they read.  An operation works on an
\* object it reaches through a reference; what it assigns to a field of
\* that object is seen by everyone who holds the object.
\* ---------------------------------------------------------------------

\* the references an operation can hold: the object DEFAULT_STORAGE of the
\* module, and an object made while the operation runs
DefaultRef == "DEFAULT_STORAGE"
NewRef == "new"

\* a deepClone that hands back the object it was given
deepClone_SameObject(ref) == ref

\* deepClone(obj) = JSON.parse(JSON.stringify(obj)): a new object with the
\* value of obj
deepClone(ref) == NewRef

\* the value of DEFAULT_STORAGE once an operation has left the value v in
\* the object behind ref
Written(ref, v) == IF ref = DefaultRef THEN v ELSE defaultStorage

\* the largest blocksTotal an incrementBlockCount starts from
MaxBlocksTotal == 2

\* what storage holds at the start: nothing, the defaults, a disabled
\* extension with one counted block, and a value of an older schema
StorageInputs ==
  {Absent,
   Present(DEFAULT_STORAGE),
   Present([DEFAULT_STORAGE EXCEPT !.globalEnabled = FALSE,
                                   !.stats = [blocksTotal |-> 1, lastBlock |-> 0]]),
   Present([DEFAULT_STORAGE EXCEPT !.schemaVersion = SCHEMA_VERSION - 1,
                                   !.stats = [blocksTotal |-> 1, lastBlock |-> 0]])}

\* the configurations a caller hands to Storage.save
SaveInputs ==
  {[DEFAULT_STORAGE EXCEPT !.platforms.twitter.enabled = FALSE]}

\* the arguments of Storage.updatePlatform
UpdateInputs ==
  {[id |-> "twitter", updates |-> [enabled |-> FALSE, hardBlocks |-> [home |-> FALSE]]]}

InitStorage ==
  /\ defaultStorage = DEFAULT_STORAGE
  /\ platformRules = PLATFORM_RULES
  /\ storageData \in StorageInputs
  /\ resetStored = NotCalled
  /\ IdleEngine
  /\ IdleMatcher
  /\ IdleMessages
  /\ IdleMigrate
  /\ IdleResolver
  /\ IdleRedirect
  /\ IdleBackground
  /\ IdleRouter

\* what migrateSchema returns in Storage.load
Loaded == migrateSchemaFrom(defaultStorage, storageData)

\* the steps shared by the operations that load, change and save: ref is
\* the object migrateSchema returned, saved the value the operation has
\* given it when it calls Storage.save
ChangeAndSave(ref, saved) ==
  /\ defaultStorage' = Written(ref, saved)
  /\ storageData' = Present(saved)
  /\ UNCHANGED <<platformRules, resetStored>>
  /\ UNCHANGED <<engineVars, matcherVars, resolverVars, redirectVars, backgroundVars, routerVars, migrateVars, messageVars>>

\* Storage.load()
StorageLoad == ChangeAndSave(deepClone(DefaultRef), Loaded)

\* Storage.save(config)
StorageSave(c) ==
  /\ storageData' = Present(c)
  /\ UNCHANGED <<defaultStorage, platformRules, resetStored>>
  /\ UNCHANGED <<engineVars, matcherVars, resolverVars, redirectVars, backgroundVars, routerVars, migrateVars, messageVars>>

\* the platform entry Storage.updatePlatform builds
UpdatedPlatform(current, updates) ==
  LET Field(f) == IF f \in DOMAIN updates THEN updates[f] ELSE EmptyMap
  IN Spread(Spread(current, updates),
            [hardBlocks |-> Spread(current.hardBlocks, Field("hardBlocks")),
             softBlocks |-> Spread(current.softBlocks, Field("softBlocks"))])

\* Storage.updatePlatform(platformId, updates)
StorageUpdatePlatform(platformId, updates) ==
  ChangeAndSave(deepClone(DefaultRef),
                [Loaded EXCEPT !.platforms[platformId] = UpdatedPlatform(@, updates)])

\* Storage.toggleGlobal(enabled)
StorageToggleGlobal(enabled) ==
  ChangeAndSave(deepClone(DefaultRef), Spread(Loaded, [globalEnabled |-> enabled]))

\* Storage.incrementBlockCount()
StorageIncrementBlockCount ==
  /\ Loaded.stats.blocksTotal < MaxBlocksTotal
  /\ ChangeAndSave(deepClone(DefaultRef),
                   [Loaded EXCEPT !.stats = [blocksTotal |-> @.blocksTotal + 1,
                                             lastBlock |-> Now]])

\* Storage.reset()
StorageReset ==
  \E ref \in {deepClone(DefaultRef)} :
    /\ storageData' = Present(defaultStorage)
    /\ resetStored' = [called |-> TRUE, value |-> defaultStorage, before |-> Loaded.stats]
    /\ UNCHANGED <<defaultStorage, platformRules>>
    /\ UNCHANGED <<engineVars, matcherVars, resolverVars, redirectVars, backgroundVars, routerVars, migrateVars, messageVars>>

\* config = await Storage.load(); getBlockDecision(u, config)
StorageDecision(u) ==
  \E ref \in {deepClone(DefaultRef)} :
    \E loaded \in {Loaded} :
      /\ defaultStorage' = Written(ref, loaded)
      /\ storageData' = Present(loaded)
      /\ url' = u
      /\ config' = loaded
      /\ decision' = getBlockDecision(u, loaded)
      /\ UNCHANGED <<baseDecision, calls>>
      /\ UNCHANGED <<platformRules, resetStored>>
      /\ UNCHANGED <<matcherVars, resolverVars, redirectVars, backgroundVars, routerVars, migrateVars, messageVars>>

\* the URLs decisions are made for
StorageUrls ==
  {MkUrl(<<"twitter", ".", "com">>, <<"/", "home">>),
   MkUrl(<<"example", ".", "com">>, <<"/">>)}

NextStorage ==
  \/ StorageLoad
  \/ \E c \in SaveInputs : StorageSave(c)
  \/ \E a \in UpdateInputs : StorageUpdatePlatform(a.id, a.updates)
  \/ \E e \in BOOLEAN : StorageToggleGlobal(e)
  \/ StorageIncrementBlockCount
  \/ StorageReset
  \/ \E u \in StorageUrls : StorageDecision(u)

SpecStorage == InitStorage /\ [][NextStorage]_vars

\* C23: after any sequence of Storage operations and decision calls the
\* objects DEFAULT_STORAGE and PLATFORM_RULES have the values they started
\* with, and what Storage.reset stores equals the original defaults, with a
\* blocksTotal of 0.
C23_DefaultsNeverWritten ==
  /\ defaultStorage = DEFAULT_STORAGE
  /\ platformRules = PLATFORM_RULES
  /\ Called(resetStored) =>
       /\ resetStored.value = DEFAULT_STORAGE
       /\ resetStored.value.stats.blocksTotal = 0

\* Storage.reset has replaced a configuration in which a block had been
\* counted, and a decision has been made with a configuration in which a
\* platform had been updated
C23_Witness ==
  /\ Called(resetStored)
  /\ resetStored.before.lastBlock = Now
  /\ resetStored.before.blocksTotal > 0
  /\ Called(decision)
  /\ ~config.platforms.twitter.hardBlocks.home

\* ---------------------------------------------------------------------
\* Further properties of the decision engine, checked under Spec
\* ---------------------------------------------------------------------

\* the first pattern of platform p that matches pathname
FirstPattern(p, pathname) ==
  PLATFORM_RULES[p].patterns[Least(MatchingIndices(p, pathname))]

\* C24: for every platform and every pathname whose first matching pattern
\* has mode 'hard', getHardBlockSetting returns a surface name, the name is
\* a key of the platform's default hardBlocks, and with that key set to
\* false getBlockDecision allows the URL.
C24_ClassifierConsistent ==
  LET p == UrlPlatform IN
  (/\ Called(decision)
   /\ p # NoPlatform
   /\ MatchingIndices(p, UrlPathname) # {}
   /\ FirstPattern(p, UrlPathname).mode = "hard")
    => LET blockSetting == getHardBlockSetting(p, UrlPathname)
       IN /\ blockSetting # NoPlatform
          /\ blockSetting \in DOMAIN DEFAULT_PLATFORMS[p].hardBlocks
          /\ ~getBlockDecision(url,
                [DEFAULT_STORAGE EXCEPT !.platforms[p].enabled = TRUE,
                                        !.platforms[p].hardBlocks[blockSetting] = FALSE]).shouldBlock

\* C25: with the extension and the platform enabled, a URL whose first
\* matching pattern has mode 'soft' is decided as checkUrl decides it, a
\* soft block, whatever the hardBlocks map of the platform holds.
C25_SoftNotOverridden ==
  LET p == UrlPlatform IN
  (/\ Called(decision)
   /\ p # NoPlatform
   /\ config.globalEnabled
   /\ config.platforms[p].enabled
   /\ MatchingIndices(p, UrlPathname) # {}
   /\ FirstPattern(p, UrlPathname).mode = "soft")
    => /\ decision = checkUrl(url)
       /\ decision.shouldBlock
       /\ decision.mode = "soft"

\* a soft-blocked page has been decided while the surface that
\* getHardBlockSetting names for its path is switched off
C25_Witness ==
  /\ Called(decision)
  /\ UrlPlatform # NoPlatform
  /\ config.globalEnabled
  /\ config.platforms[UrlPlatform].enabled
  /\ MatchingIndices(UrlPlatform, UrlPathname) # {}
  /\ FirstPattern(UrlPlatform, UrlPathname).mode = "soft"
  /\ getHardBlockSetting(UrlPlatform, UrlPathname) # NoPlatform
  /\ HardBlockIsFalse(config.platforms[UrlPlatform].hardBlocks,
                      getHardBlockSetting(UrlPlatform, UrlPathname))

\* the shape every decision has: it blocks exactly when its mode is hard or
\* soft, and it has a redirectUrl exactly when it blocks
WellShaped(d) ==
  /\ d.shouldBlock <=> d.mode \in {"hard", "soft"}
  /\ d.redirectUrl # undefined <=> d.shouldBlock

\* C26: every decision of checkUrl and of getBlockDecision blocks exactly
\* when its mode is 'hard' or 'soft' and has a redirectUrl exactly when it
\* blocks; a blocking decision whose pattern has no redirect has the
\* defaultRedirect of the platform.
C26_DecisionShape ==
  /\ Called(baseDecision) => WellShaped(baseDecision)
  /\ Called(decision) => WellShaped(decision)
  /\ \A d \in {baseDecision, decision} :
       (/\ Called(d)
        /\ d.shouldBlock
        /\ FirstPattern(UrlPlatform, UrlPathname).redirect = undefined)
         => d.redirectUrl = PLATFORM_RULES[UrlPlatform].defaultRedirect

\* a blocking decision has been made from a pattern without a redirect
C26_Witness ==
  /\ Called(decision) /\ Called(baseDecision)
  /\ decision.shouldBlock
  /\ FirstPattern(UrlPlatform, UrlPathname).redirect = undefined
  /\ decision.redirectUrl = PLATFORM_RULES[UrlPlatform].defaultRedirect

\* C28: for every URL that getBlockDecision hard-blocks, the address that
\* buildRedirectUrl makes from the token of the decision is not hard-blocked
\* by getBlockDecision under the same configuration.
C28_NoRedirectIntoHardBlock ==
  (Called(decision) /\ decision.shouldBlock /\ decision.mode = "hard")
    => \A d \in {getBlockDecision(buildRedirectUrl(url, decision.redirectUrl, RuntimeId),
                                  config)} :
         ~(d.shouldBlock /\ d.mode = "hard")

\* a short has been hard-blocked, and its redirect leads to the player
C28_Witness ==
  /\ Called(decision)
  /\ decision.shouldBlock
  /\ decision.mode = "hard"
  /\ decision.redirectUrl = ShortsRedirect
  /\ ParseURL(buildRedirectUrl(url, decision.redirectUrl, RuntimeId)).pathname
       = <<"/", "watch">>

\* ---------------------------------------------------------------------
\* The interceptor with the popup: the background script handles
\* navigation events, the GET_CONFIG and SET_CONFIG messages of the popup
\* and the storage.onChanged events, while the user toggles switches.
\* ---------------------------------------------------------------------

\* the toggles the user makes in one run
MaxToggles == 2

\* the tabs that navigate
InterceptorTabs == {1}

\* a hard-blocked page and an allowed page
InterceptorUrls ==
  {MkUrl(<<"twitter", ".", "com">>, <<"/", "home">>),
   MkUrl(YouTubeHost, <<"/", "watch", "?", "v", "=", "abc123">>)}

\* the platforms whose switch the user uses
ToggledPlatforms == {"twitter"}

\* what storage holds when the background script starts
InterceptorStored ==
  {Absent,
   Present([DEFAULT_STORAGE EXCEPT !.stats = [blocksTotal |-> 3, lastBlock |-> 0]])}

NoMessage == [type |-> "none"]

InitInterceptor ==
  /\ stored \in InterceptorStored
  /\ cachedConfig = Absent
  /\ listening = FALSE
  /\ handlers = [h \in InterceptorTabs |-> IdleHandler]
  /\ tabUrl = [h \in InterceptorTabs |-> NotCalled]
  /\ blocksAtInit = 0
  /\ incrementsCompleted = 0
  /\ changes = <<>>
  /\ pending = NoMessage
  /\ currentConfig = Absent
  /\ toggles = 0
  /\ lastSet = Absent
  /\ IdleEngine
  /\ IdleMatcher
  /\ IdleStorage
  /\ IdleMigrate
  /\ IdleResolver
  /\ IdleRedirect
  /\ IdleRouter

\* the popup opens: init() calls loadConfig(), which sends GET_CONFIG
PopupOpen ==
  /\ pending = NoMessage
  /\ ~currentConfig.present
  /\ pending' = [type |-> "GET_CONFIG"]
  /\ UNCHANGED <<currentConfig, toggles, lastSet>>
  /\ UNCHANGED <<engineVars, matcherVars, resolverVars, redirectVars, backgroundVars, routerVars, migrateVars, storageVars>>

\* handleMessage GET_CONFIG: Storage.load has returned, the cache takes the
\* configuration, and loadConfig of the popup keeps the response
GetConfig ==
  /\ pending.type = "GET_CONFIG"
  /\ cachedConfig' = Present(migrateSchema(stored))
  /\ stored' = StoredAfterLoad(stored)
  /\ changes' = ChangesAfterLoad(stored)
  /\ currentConfig' = Present(migrateSchema(stored))
  /\ pending' = NoMessage
  /\ UNCHANGED <<toggles, lastSet>>
  /\ UNCHANGED <<listening, handlers, tabUrl, blocksAtInit, incrementsCompleted>>
  /\ UNCHANGED <<engineVars, matcherVars, resolverVars, redirectVars, routerVars, migrateVars, storageVars>>

\* saveConfig(config) of the popup: SET_CONFIG is sent with the whole
\* configuration
SendSetConfig(cfg) ==
  /\ pending = NoMessage
  /\ toggles < MaxToggles
  /\ toggles' = toggles + 1
  /\ currentConfig' = Present(cfg)
  /\ pending' = [type |-> "SET_CONFIG", payload |-> cfg]
  /\ UNCHANGED lastSet
  /\ UNCHANGED <<engineVars, matcherVars, resolverVars, redirectVars, backgroundVars, routerVars, migrateVars, storageVars>>

\* handleGlobalToggle(enabled)
PopupToggleGlobal(enabled) ==
  /\ currentConfig.present
  /\ SendSetConfig([currentConfig.value EXCEPT !.globalEnabled = enabled])

\* handlePlatformToggle(platformId, enabled)
PopupTogglePlatform(platformId, enabled) ==
  /\ currentConfig.present
  /\ SendSetConfig([currentConfig.value EXCEPT !.platforms[platformId].enabled = enabled])

\* handleMessage SET_CONFIG: Storage.save has written the payload and the
\* cache takes it
SetConfig ==
  /\ pending.type = "SET_CONFIG"
  /\ stored' = Present(pending.payload)
  /\ changes' = Append(changes, pending.payload)
  /\ cachedConfig' = Present(pending.payload)
  /\ lastSet' = Present(pending.payload)
  /\ pending' = NoMessage
  /\ UNCHANGED <<currentConfig, toggles>>
  /\ UNCHANGED <<listening, handlers, tabUrl, blocksAtInit, incrementsCompleted>>
  /\ UNCHANGED <<engineVars, matcherVars, resolverVars, redirectVars, routerVars, migrateVars, storageVars>>

NextInterceptor ==
  \/ BackgroundInit
  \/ \E h \in InterceptorTabs, u \in InterceptorUrls : OnNavigation(h, u, 0)
  \/ \E h \in InterceptorTabs : IncrementLoad(h)
  \/ \E h \in InterceptorTabs : IncrementSave(h)
  \/ \E h \in InterceptorTabs : ReloadConfig(h)
  \/ \E h \in InterceptorTabs : TabsUpdate(h)
  \/ OnStorageChanged
  \/ PopupOpen
  \/ GetConfig
  \/ PopupToggleGlobal(~currentConfig.value.globalEnabled)
  \/ \E p \in ToggledPlatforms :
       PopupTogglePlatform(p, ~currentConfig.value.platforms[p].enabled)
  \/ SetConfig

SpecInterceptor == InitInterceptor /\ [][NextInterceptor]_vars

\* no navigation or message handler is in flight and no storage.onChanged
\* event waits
Quiescent ==
  /\ listening
  /\ \A h \in DOMAIN handlers : handlers[h].pc \in {"idle", "done"}
  /\ pending = NoMessage
  /\ changes = <<>>

\* what a configuration decides with: everything but the statistics
Settings(cfg) == [globalEnabled |-> cfg.globalEnabled, platforms |-> cfg.platforms]

\* C27 (first part): when no handler is in flight and every storage change
\* has been reported, the cached configuration is the stored one.
CacheEqualsStore == Quiescent => cachedConfig = stored

\* C27: when no handler is in flight and every storage change has been
\* reported, the cached configuration is the stored one, and once a
\* SET_CONFIG has completed it has the settings that the last SET_CONFIG
\* saved, which are then the settings the next navigation is decided with.
C27_CacheTracksStore ==
  Quiescent =>
    /\ cachedConfig = stored
    /\ lastSet.present =>
         Settings(cachedConfig.value) = Settings(lastSet.value)

\* C29: once a SET_CONFIG has completed, the stored globalEnabled and the
\* stored enabled flag of every platform are the ones it saved, until the
\* next SET_CONFIG completes, whatever navigation handlers do meanwhile.
C29_SettingNotUndone ==
  lastSet.present =>
    /\ stored.present
    /\ stored.value.globalEnabled = lastSet.value.globalEnabled
    /\ \A p \in PlatformIds :
         stored.value.platforms[p].enabled = lastSet.value.platforms[p].enabled

\* the stats.blocksTotal that Storage.load reads from data
BlocksTotal(data) == migrateSchema(data).stats.blocksTotal

\* C30: no step of a navigation handler, of a message handler or of the
\* popup lowers the stored stats.blocksTotal.
C30_CountNeverDecreases ==
  [][BlocksTotal(stored') >= BlocksTotal(stored)]_vars

====
